---- MODULE Spec2Model ----
(***************************************************************************)
(* The knowledge-base lifecycle of the news summarizer (src/rag/ingest.py, *)
(* src/rag/query.py) and the per-source credibility history               *)
(* (src/bias_detection/credibility_scorer.py) as a state machine.          *)
(*                                                                         *)
(* External services and the file system are the environment: every call   *)
(* that can fail (FAISS create/load/add/save, file writes, rmtree, the LLM) *)
(* takes its outcome from a small set chosen by \E.                        *)
(***************************************************************************)
EXTENDS Integers, Sequences, FiniteSets, TLC

----------------------------------------------------------------------------
\* Bounds of the model
MaxArticles == 2        \* longest article list of the validation specification
MaxBatch    == 1        \* longest article list of the lifecycle specification
MaxIndexed  == 3        \* most articles behind the index of the query specification
MaxFetched  == 2        \* most raw articles in one answer of the news API
MaxRequests == 3        \* most HTTP requests followed in one fetch_news call
MaxQueryLen == 4        \* most characters of a query given to sanitize_query
MaxBlanks   == 1        \* most blanks before, and after, a query to validate
MaxCore     == 201      \* most characters between the blanks of such a query
MaxChunks   == 4        \* most chunks the persisted index may hold
MaxSentiment == 6       \* longest article list of the sentiment specification
MaxSummarized == 2      \* longest article list of the summarizer specification
MaxStored   == 2         \* most chunks the application's index holds
MaxUpdates  == 12       \* most score_source_credibility calls in one run

\* Program constants
CHUNK_SIZE       == 1000
CHUNK_OVERLAP    == 200
MIN_CONTENT_LEN  == 50
HISTORY_LIMIT    == 10

----------------------------------------------------------------------------
\* Strings.  A metadata field is a string value or Missing (the key is not in
\* the dict).  A content string is kept as the lengths of its leading
\* whitespace, its core (first to last non-whitespace character) and its
\* trailing whitespace: len() is their sum and len(s.strip()) is the core.
Missing == "<missing>"

Text(l, c, t) == [present |-> TRUE, lead |-> l, core |-> c, trail |-> t]
NoText        == [present |-> FALSE, lead |-> 0, core |-> 0, trail |-> 0]
StrLen(s)     == s.lead + s.core + s.trail
StripLen(s)   == s.core

Article(t, c, s, u, p) ==
    [title |-> t, content |-> c, source |-> s, url |-> u, published_at |-> p]

required_fields == <<"title", "content", "source", "url", "published_at">>

\* `field not in article`
FieldAbsent(article, field) ==
    IF field = "content" THEN ~article.content.present
                         ELSE article[field] = Missing

\* `not article[field]` for a field that is present
FieldFalsy(article, field) ==
    IF field = "content" THEN StrLen(article.content) = 0
                         ELSE article[field] = ""

\* (variants with one plausible slip each; the properties below must tell
\* them from the code)
validate_article_unchecked_date(article) ==
    /\ \A i \in 1..(Len(required_fields) - 1) :
          ~(FieldAbsent(article, required_fields[i])
              \/ FieldFalsy(article, required_fields[i]))
    /\ ~(StripLen(article.content) < MIN_CONTENT_LEN)

validate_article_raw_length(article) ==
    /\ \A i \in 1..Len(required_fields) :
          ~(FieldAbsent(article, required_fields[i])
              \/ FieldFalsy(article, required_fields[i]))
    /\ ~(StrLen(article.content) < MIN_CONTENT_LEN)

validate_article(article) ==
    /\ \A i \in 1..Len(required_fields) :
          ~(FieldAbsent(article, required_fields[i])
              \/ FieldFalsy(article, required_fields[i]))
    /\ ~(StripLen(article.content) < MIN_CONTENT_LEN)

create_metadata(article) ==
    [title |-> article.title, source |-> article.source,
     url |-> article.url, published_at |-> article.published_at]

\* valid_articles of ingest_documents: the loop visits each article once
valid_articles(articles) == SelectSeq(articles, validate_article)

make_documents(valid) ==
    [i \in 1..Len(valid) |->
        [page_content |-> valid[i].content,
         metadata     |-> create_metadata(valid[i])]]

\* The splitter: windows of CHUNK_SIZE characters that overlap by
\* CHUNK_OVERLAP; a text that fits in one window is one chunk.
NumChunks(len) ==
    IF len <= CHUNK_SIZE THEN 1
    ELSE LET stride == CHUNK_SIZE - CHUNK_OVERLAP
         IN  ((len - CHUNK_OVERLAP) + stride - 1) \div stride

ChunkLen(len, i) ==
    IF i < NumChunks(len) THEN CHUNK_SIZE
    ELSE len - (NumChunks(len) - 1) * (CHUNK_SIZE - CHUNK_OVERLAP)

split_documents(doc) ==
    [i \in 1..NumChunks(StrLen(doc.page_content)) |->
        [metadata |-> doc.metadata, part |-> i,
         len |-> ChunkLen(StrLen(doc.page_content), i)]]

RECURSIVE all_chunks(_)
all_chunks(documents) ==
    IF documents = <<>> THEN <<>>
    ELSE split_documents(Head(documents)) \o all_chunks(Tail(documents))

----------------------------------------------------------------------------
\* The persisted index directory: absent, loadable ("ok", with the chunks it
\* holds) or present but not loadable ("corrupt").
AbsentIndex     == [state |-> "absent",  chunks |-> <<>>]
CorruptIndex    == [state |-> "corrupt", chunks |-> <<>>]
OkIndex(chunks) == [state |-> "ok",      chunks |-> chunks]

\* An in-memory FAISS store, or None
None          == [set |-> FALSE, chunks |-> <<>>]
Store(chunks) == [set |-> TRUE,  chunks |-> chunks]

\* A JSON side file, with the number of articles it lists (articles_count)
AbsentFile     == [state |-> "absent",    articles_count |-> 0]
TruncatedFile  == [state |-> "truncated", articles_count |-> 0]
OkFile(valid)  == [state |-> "ok", articles_count |-> Len(valid)]

PathExists(d) == d.state # "absent"

\* FAISS.load_local: succeeds exactly on a loadable directory
LoadRaises(d) == d.state # "ok"

load_or_create_store(d, createOk) ==
    IF PathExists(d)
    THEN IF LoadRaises(d) THEN None ELSE Store(d.chunks)
    ELSE IF createOk THEN Store(<<>>) ELSE None

add_documents(store, chunks) == Store(store.chunks \o chunks)

\* store.save_local writes the directory in place.  It returns ("ok"), or it
\* raises before anything was written ("clean"), or it raises after the
\* directory was created or a file of it was overwritten ("partial").
SaveOutcomes == {"ok", "clean", "partial"}

save_local(store, d, out) ==
    CASE out = "ok"      -> OkIndex(store.chunks)
      [] out = "clean"   -> d
      [] out = "partial" -> CorruptIndex

\* _save_ingestion_metadata: two files opened with "w" and dumped in turn;
\* the first error ends the function and is logged, not raised.
MetaOutcomes == {"ok", "meta_open", "meta_dump", "summ_open", "summ_dump"}

save_ingestion_metadata(valid, meta, summ, out) ==
    CASE out = "ok"        -> [meta |-> OkFile(valid),  summ |-> OkFile(valid)]
      [] out = "meta_open" -> [meta |-> meta,           summ |-> summ]
      [] out = "meta_dump" -> [meta |-> TruncatedFile,  summ |-> summ]
      [] out = "summ_open" -> [meta |-> OkFile(valid),  summ |-> summ]
      [] out = "summ_dump" -> [meta |-> OkFile(valid),  summ |-> TruncatedFile]

----------------------------------------------------------------------------
\* DocumentIngestor.ingest_documents.  e is the environment's outcome for
\* each fallible call: e.create (FAISS.from_documents), e.add
\* (store.add_documents), e.save (store.save_local), e.meta (the side files).
IngestReturn(res, d, meta, summ, docs, chunks, steps, failed) ==
    [result |-> res, index |-> d, meta |-> meta, summ |-> summ,
     documents |-> docs, chunks |-> chunks, steps |-> steps,
     failed |-> failed]

\* steps: the steps the call ran; failed: the steps among them that failed.
\* store_steps is the second half of ingest_documents, from
\* _load_or_create_store to the return.
store_steps_save_ignored(valid, documents, chunks, d, meta, summ, e) ==
    LET store == load_or_create_store(d, e.create) IN
    IF ~store.set
    THEN IngestReturn(FALSE, d, meta, summ, documents, chunks,
                      {"load_or_create"}, {"load_or_create"})
    ELSE IF ~e.add
    THEN IngestReturn(FALSE, d, meta, summ, documents, chunks,
                      {"load_or_create", "add"}, {"add"})
    ELSE
    LET added == add_documents(store, chunks)
        saved == save_local(added, d, e.save)
        files == save_ingestion_metadata(valid, meta, summ, e.meta)
    IN  IngestReturn(TRUE, saved, files.meta, files.summ, documents, chunks,
                     {"load_or_create", "add", "save", "metadata"},
                     (IF e.save = "ok" THEN {} ELSE {"save"})
                       \cup (IF e.meta = "ok" THEN {} ELSE {"metadata"}))

store_steps(valid, documents, chunks, d, meta, summ, e) ==
    LET store == load_or_create_store(d, e.create) IN
    IF ~store.set
    THEN IngestReturn(FALSE, d, meta, summ, documents, chunks,
                      {"load_or_create"}, {"load_or_create"})
    ELSE IF ~e.add
    THEN IngestReturn(FALSE, d, meta, summ, documents, chunks,
                      {"load_or_create", "add"}, {"add"})
    ELSE
    LET added == add_documents(store, chunks)
        saved == save_local(added, d, e.save)
    IN
    IF e.save # "ok"
    THEN IngestReturn(FALSE, saved, meta, summ, documents, chunks,
                      {"load_or_create", "add", "save"}, {"save"})
    ELSE
    LET files == save_ingestion_metadata(valid, meta, summ, e.meta)
    IN  IngestReturn(TRUE, saved, files.meta, files.summ, documents, chunks,
                     {"load_or_create", "add", "save", "metadata"},
                     IF e.meta = "ok" THEN {} ELSE {"metadata"})

ingest_documents(articles, d, meta, summ, e) ==
    IF articles = <<>>
    THEN IngestReturn(FALSE, d, meta, summ, <<>>, <<>>, {}, {})
    ELSE
    LET valid == valid_articles(articles) IN
    IF valid = <<>>
    THEN IngestReturn(FALSE, d, meta, summ, <<>>, <<>>, {}, {})
    ELSE
    LET documents == make_documents(valid)
        chunks    == all_chunks(documents)
    IN  store_steps(valid, documents, chunks, d, meta, summ, e)

\* DocumentIngestor.clear_vector_store.  e.rmtree is the outcome of
\* shutil.rmtree ("ok"; "clean": raised before deleting anything; "partial":
\* raised after deleting some files), e.rmMeta and e.rmLc say whether
\* os.remove of the two metadata files succeeds.
RmtreeOutcomes == {"ok", "clean", "partial"}

ClearReturn(res, d, meta, lc) ==
    [result |-> res, index |-> d, meta |-> meta, lc |-> lc]

clear_vector_store_errors_ignored(d, meta, lc, e) ==
    IF PathExists(d) /\ e.rmtree # "ok"
    THEN ClearReturn(TRUE, IF e.rmtree = "clean" THEN d ELSE CorruptIndex,
                     AbsentFile, FALSE)
    ELSE ClearReturn(TRUE, AbsentIndex, AbsentFile, FALSE)

clear_vector_store(d, meta, lc, e) ==
    IF PathExists(d) /\ e.rmtree = "clean"
    THEN ClearReturn(FALSE, d, meta, lc)
    ELSE IF PathExists(d) /\ e.rmtree = "partial"
    THEN ClearReturn(FALSE, CorruptIndex, meta, lc)
    ELSE IF meta.state # "absent" /\ ~e.rmMeta
    THEN ClearReturn(FALSE, AbsentIndex, meta, lc)
    ELSE IF lc /\ ~e.rmLc
    THEN ClearReturn(FALSE, AbsentIndex, AbsentFile, lc)
    ELSE ClearReturn(TRUE, AbsentIndex, AbsentFile, FALSE)

\* DocumentIngestor.get_store_info
get_store_info(d) ==
    IF ~PathExists(d) THEN [exists |-> FALSE, document_count |-> -1]
    ELSE IF LoadRaises(d) THEN [exists |-> TRUE, document_count |-> -1]
    ELSE [exists |-> TRUE, document_count |-> Len(d.chunks)]

----------------------------------------------------------------------------
\* RAGQueryEngine.  llm is whether self.llm was created; store and qa_chain
\* are None or hold the chunks of the index they were built from.
NewEngineFields == [llm |-> FALSE, store |-> None, qa_chain |-> None]

\* RetrievalQA.from_chain_type rejects a missing llm
ChainRaises(eng) == ~eng.llm

load_vector_store(eng, d) ==
    IF ~PathExists(d)
    THEN [engine |-> eng, report |-> "not_found"]
    ELSE IF LoadRaises(d)
    THEN [engine |-> eng, report |-> "failed"]
    ELSE IF ChainRaises(eng)
    THEN [engine |-> [eng EXCEPT !.store = Store(d.chunks)],
          report |-> "failed"]
    ELSE [engine |-> [eng EXCEPT !.store = Store(d.chunks),
                                 !.qa_chain = Store(d.chunks)],
          report |-> "loaded"]

initialize(d, ollamaUp) ==
    IF ~ollamaUp
    THEN [engine |-> NewEngineFields, report |-> "no_ollama"]
    ELSE load_vector_store([NewEngineFields EXCEPT !.llm = TRUE], d)

reload_vector_store(eng, d) ==
    load_vector_store(eng, d)

get_knowledge_base_info(eng) ==
    IF ~eng.store.set THEN [loaded |-> FALSE, document_count |-> 0]
    ELSE [loaded |-> TRUE, document_count |-> Len(eng.store.chunks)]

\* RAGQueryEngine.query.  invokeOk: the chain's call of the LLM returned;
\* picked: the positions of the chunks the retriever returned.
RETRIEVER_K == 3
PREVIEW_LEN == 200

Min(a, b) == IF a < b THEN a ELSE b

SetToSeq(S) ==
    LET RECURSIVE build(_)
        build(T) == IF T = {} THEN <<>>
                    ELSE LET m == CHOOSE x \in T : \A y \in T : x <= y
                         IN  <<m>> \o build(T \ {m})
    IN build(S)

Retrievals(chunks) ==
    {P \in SUBSET (1..Len(chunks)) :
        Cardinality(P) = Min(RETRIEVER_K, Len(chunks))}

\* (the conditional expression binding tighter than the "+")
content_preview_misparsed(chunk) ==
    IF chunk.len > PREVIEW_LEN
    THEN [chars |-> PREVIEW_LEN, ellipsis |-> TRUE]
    ELSE [chars |-> Min(chunk.len, PREVIEW_LEN) + chunk.len,
          ellipsis |-> FALSE]

content_preview(chunk) ==
    IF chunk.len > PREVIEW_LEN
    THEN [chars |-> PREVIEW_LEN, ellipsis |-> TRUE]
    ELSE [chars |-> chunk.len,   ellipsis |-> FALSE]

format_source(chunk) ==
    [title |-> chunk.metadata.title, source |-> chunk.metadata.source,
     url |-> chunk.metadata.url, published_at |-> chunk.metadata.published_at,
     part |-> chunk.part, content_preview |-> content_preview(chunk)]

query_unguarded(eng, invokeOk, picked) ==
    IF ~eng.qa_chain.set \/ ~invokeOk
    THEN [kind |-> "query_failed", searched |-> eng.qa_chain.chunks,
          sources |-> <<>>]
    ELSE LET order == SetToSeq(picked)
         IN  [kind |-> "answer", searched |-> eng.qa_chain.chunks,
              sources |-> [i \in 1..Len(order) |->
                              format_source(eng.qa_chain.chunks[order[i]])]]

query(eng, invokeOk, picked) ==
    IF ~eng.qa_chain.set
    THEN [kind |-> "not_loaded", searched |-> <<>>, sources |-> <<>>]
    ELSE IF ~invokeOk
    THEN [kind |-> "query_failed", searched |-> eng.qa_chain.chunks,
          sources |-> <<>>]
    ELSE LET order == SetToSeq(picked)
         IN  [kind |-> "answer", searched |-> eng.qa_chain.chunks,
              sources |-> [i \in 1..Len(order) |->
                              format_source(eng.qa_chain.chunks[order[i]])]]

----------------------------------------------------------------------------
\* CredibilityScorer.  Scores are fixed-point numbers, 10000 standing for 1.0
\* (the code uses floats).  An article is seen through what the scorer reads
\* of it: the content length and the counts of the keywords it looks for.
ONE == 10000

known_sources ==
    ("reuters" :> [reputation |-> "high", bias |-> "low",
                   fact_check |-> "excellent"])
    @@ ("fox news" :> [reputation |-> "medium", bias |-> "high",
                       fact_check |-> "mixed"])

\* source.lower(), on the source names of the model
Lower(source) ==
    CASE source = "Reuters"    -> "reuters"
      [] source = "Fox News"   -> "fox news"
      [] source = "Daily Blog" -> "daily blog"
      [] OTHER                 -> source

reputation_scores == [high |-> 9000, medium |-> 7000, low |-> 5000]
bias_scores       == [low |-> 9000, moderate |-> 7000, high |-> 5000]
fact_check_scores == [excellent |-> 9000, good |-> 7000, mixed |-> 5000,
                      poor |-> 3000]

get_base_reputation_score(source) ==
    IF Lower(source) \in DOMAIN known_sources
    THEN LET k == known_sources[Lower(source)]
         IN  (reputation_scores[k.reputation] * 4
                + bias_scores[k.bias] * 3
                + fact_check_scores[k.fact_check] * 3) \div 10
    ELSE 6000

Max(a, b) == IF a > b THEN a ELSE b

RECURSIVE SumSeq(_)
SumSeq(q) == IF q = <<>> THEN 0 ELSE Head(q) + SumSeq(Tail(q))

article_quality(a) ==
    LET length_score     == Min((a.len * ONE) \div 1000, ONE)
        indicator_score  == Min((a.indicators * ONE) \div 5, ONE)
        red_flag_penalty == a.red_flags * 1000
    IN  Max((length_score * 3 + indicator_score * 7) \div 10
              - red_flag_penalty, 0)

analyze_recent_performance(articles) ==
    IF articles = <<>> THEN 5000
    ELSE SumSeq([i \in 1..Len(articles) |-> article_quality(articles[i])])
           \div Len(articles)

tone(a) ==
    IF a.pos > a.neg THEN "positive"
    ELSE IF a.neg > a.pos THEN "negative" ELSE "neutral"

calculate_consistency_score(articles) ==
    IF articles = <<>> THEN 5000
    ELSE
    LET n       == Len(articles)
        tones   == {tone(articles[i]) : i \in 1..n}
        lengths == {articles[i].len : i \in 1..n}
        maxLen  == CHOOSE x \in lengths : \A y \in lengths : y <= x
        minLen  == CHOOSE x \in lengths : \A y \in lengths : x <= y
        mentions == SumSeq([i \in 1..n |-> Cardinality(articles[i].focus)])
        areas   == UNION {articles[i].focus : i \in 1..n}
    IN
    IF maxLen = 0 THEN 5000          \* ZeroDivisionError, caught
    ELSE
    LET tone_consistency   == ONE - (Cardinality(tones) * ONE) \div n
        length_consistency == ONE - ((maxLen - minLen) * ONE) \div maxLen
        focus_consistency  ==
            IF mentions = 0 THEN 5000
            ELSE ONE - (Cardinality(areas) * ONE) \div mentions
    IN  (tone_consistency * 4 + length_consistency * 3
           + focus_consistency * 3) \div 10

calculate_overall_credibility(base, performance, consistency) ==
    Min((base * 4 + performance * 4 + consistency * 2) \div 10, ONE)

classify_credibility_level(score) ==
    IF score >= 8000 THEN "Very High"
    ELSE IF score >= 6000 THEN "High"
    ELSE IF score >= 4000 THEN "Medium"
    ELSE IF score >= 2000 THEN "Low"
    ELSE "Very Low"

\* _update_source_history, on the "sources" dict.  average_credibility is
\* kept as the fraction sum / count.
NewSourceRecord ==
    [history |-> <<>>, average_credibility |-> [sum |-> 0, count |-> 1],
     article_count |-> 0]

LastEntries(h, n) == SubSeq(h, Len(h) - n + 1, Len(h))

update_source_history_keeps_oldest(sources, source, score, articles) ==
    LET old      == IF source \in DOMAIN sources THEN sources[source]
                    ELSE NewSourceRecord
        entry    == [credibility_score |-> score,
                     article_count |-> Len(articles)]
        appended == Append(old.history, entry)
        kept     == IF Len(appended) > HISTORY_LIMIT
                    THEN SubSeq(appended, 1, HISTORY_LIMIT)
                    ELSE appended
        scores   == [i \in 1..Len(kept) |-> kept[i].credibility_score]
        record   == [history |-> kept,
                     average_credibility |->
                         [sum |-> SumSeq(scores), count |-> Len(scores)],
                     article_count |-> old.article_count + Len(articles)]
    IN  (source :> record) @@ sources

update_source_history_mean_of_all(sources, source, score, articles) ==
    LET old      == IF source \in DOMAIN sources THEN sources[source]
                    ELSE NewSourceRecord
        entry    == [credibility_score |-> score,
                     article_count |-> Len(articles)]
        appended == Append(old.history, entry)
        kept     == IF Len(appended) > HISTORY_LIMIT
                    THEN LastEntries(appended, HISTORY_LIMIT)
                    ELSE appended
        scores   == [i \in 1..Len(appended) |->
                        appended[i].credibility_score]
        record   == [history |-> kept,
                     average_credibility |->
                         [sum |-> SumSeq(scores), count |-> Len(scores)],
                     article_count |-> old.article_count + Len(articles)]
    IN  (source :> record) @@ sources

update_source_history_untrimmed(sources, source, score, articles) ==
    LET old      == IF source \in DOMAIN sources THEN sources[source]
                    ELSE NewSourceRecord
        entry    == [credibility_score |-> score,
                     article_count |-> Len(articles)]
        appended == Append(old.history, entry)
        scores   == [i \in 1..Len(appended) |-> appended[i].credibility_score]
        record   == [history |-> appended,
                     average_credibility |->
                         [sum |-> SumSeq(scores), count |-> Len(scores)],
                     article_count |-> old.article_count + Len(articles)]
    IN  (source :> record) @@ sources

update_source_history(sources, source, score, articles) ==
    LET old      == IF source \in DOMAIN sources THEN sources[source]
                    ELSE NewSourceRecord
        entry    == [credibility_score |-> score,
                     article_count |-> Len(articles)]
        appended == Append(old.history, entry)
        kept     == IF Len(appended) > HISTORY_LIMIT
                    THEN LastEntries(appended, HISTORY_LIMIT)
                    ELSE appended
        scores   == [i \in 1..Len(kept) |-> kept[i].credibility_score]
        record   == [history |-> kept,
                     average_credibility |->
                         [sum |-> SumSeq(scores), count |-> Len(scores)],
                     article_count |-> old.article_count + Len(articles)]
    IN  (source :> record) @@ sources

\* _save_credibility_data: the file is rewritten ("ok"), or open fails and the
\* file keeps what it had ("open"), or the dump fails and leaves a truncated
\* file ("dump").  Errors are logged, not raised.
CredSaveOutcomes == {"ok", "open", "dump"}

save_credibility_data(file, out) ==
    CASE out = "ok"   -> "current"
      [] out = "open" -> IF file = "current" THEN "stale" ELSE file
      [] out = "dump" -> "truncated"

score_source_credibility(sources, source, articles) ==
    LET base_score        == get_base_reputation_score(source)
        performance_score == analyze_recent_performance(articles)
        consistency_score == calculate_consistency_score(articles)
        overall == calculate_overall_credibility(base_score, performance_score,
                                                 consistency_score)
    IN  [sources |-> update_source_history(sources, source, overall, articles),
         report  |-> [source |-> source, overall_credibility |-> overall,
                      credibility_level |-> classify_credibility_level(overall),
                      base_reputation |-> base_score,
                      recent_performance |-> performance_score,
                      consistency_score |-> consistency_score]]

----------------------------------------------------------------------------
\* Python floats (IEEE 754 binary64) for the quotients the analyzers compute.
\* A float that is not zero is 1.b2 b3 ... b53 (binary) times 2^exp: bits is
\* the sequence of its 53 significant bits, the first of them 1.
MANTISSA == 53

Zeros(n) == [i \in 1..n |-> 0]

FloatZero == [zero |-> TRUE, exp |-> 0, bits |-> Zeros(MANTISSA)]

\* Round to nearest, ties to even: bits are the first 53 bits of the exact
\* result, up says that what follows them rounds upwards.
RoundedFloat(exp, bits, up) ==
    IF ~up THEN [zero |-> FALSE, exp |-> exp, bits |-> bits]
    ELSE IF \A i \in 1..MANTISSA : bits[i] = 1
    THEN [zero |-> FALSE, exp |-> exp + 1,
          bits |-> <<1>> \o Zeros(MANTISSA - 1)]
    ELSE LET j == CHOOSE i \in 1..MANTISSA :
                      bits[i] = 0 /\ \A k \in (i+1)..MANTISSA : bits[k] = 1
         IN  [zero |-> FALSE, exp |-> exp,
              bits |-> [i \in 1..MANTISSA |->
                           IF i < j THEN bits[i]
                           ELSE IF i = j THEN 1 ELSE 0]]

\* Long division: the next k bits of rem / n, and the remainder after them
RECURSIVE QuotientBits(_, _, _, _)
QuotientBits(rem, n, k, acc) ==
    IF k = 0 THEN [bits |-> acc, rem |-> rem]
    ELSE IF 2 * rem >= n
    THEN QuotientBits(2 * rem - n, n, k - 1, Append(acc, 1))
    ELSE QuotientBits(2 * rem, n, k - 1, Append(acc, 0))

\* The exponent of p / n, for 0 < p <= n: the shift that brings p up to n
RECURSIVE LeadingShift(_, _, _)
LeadingShift(p, n, shift) ==
    IF p >= n THEN [p |-> p, shift |-> shift]
    ELSE LeadingShift(2 * p, n, shift + 1)

\* count / total_articles, for 0 <= count <= total_articles, total > 0
FloatDiv(p, n) ==
    IF p = 0 THEN FloatZero
    ELSE LET lead == LeadingShift(p, n, 0)
             q    == QuotientBits(lead.p - n, n, MANTISSA - 1, <<1>>)
             up   == \/ 2 * q.rem > n
                     \/ 2 * q.rem = n /\ q.bits[MANTISSA] = 1
         IN  RoundedFloat(0 - lead.shift, q.bits, up)

\* BiasAnalyzer._analyze_sentiment_bias.  An article is seen through the
\* numbers of positive and of negative keywords found in its title and
\* content.
sentiment(article) ==
    IF article.positive_score > article.negative_score THEN "positive"
    ELSE IF article.negative_score > article.positive_score THEN "negative"
    ELSE "neutral"

CountOf(articles, bucket) ==
    Cardinality({i \in 1..Len(articles) : sentiment(articles[i]) = bucket})

Ratio(count, total_articles) ==
    IF total_articles > 0 THEN FloatDiv(count, total_articles) ELSE FloatZero

\* the same with "if" in the place of "elif": a positive article also falls
\* into the else branch of the test for negative ones
analyze_sentiment_bias_without_elif(articles) ==
    LET total_articles == Len(articles)
        positive_count == CountOf(articles, "positive")
        negative_count == CountOf(articles, "negative")
        neutral_count  == total_articles - CountOf(articles, "negative")
    IN  [positive_count |-> positive_count,
         negative_count |-> negative_count,
         neutral_count  |-> neutral_count,
         positive_ratio |-> Ratio(positive_count, total_articles),
         negative_ratio |-> Ratio(negative_count, total_articles),
         neutral_ratio  |-> Ratio(neutral_count, total_articles),
         sentiment_bias_score |->
             [negative  |-> positive_count < negative_count,
              magnitude |->
                  Ratio(IF positive_count < negative_count
                        THEN negative_count - positive_count
                        ELSE positive_count - negative_count,
                        total_articles)]]

analyze_sentiment_bias(articles) ==
    LET total_articles == Len(articles)
        positive_count == CountOf(articles, "positive")
        negative_count == CountOf(articles, "negative")
        neutral_count  == CountOf(articles, "neutral")
    IN  [positive_count |-> positive_count,
         negative_count |-> negative_count,
         neutral_count  |-> neutral_count,
         positive_ratio |-> Ratio(positive_count, total_articles),
         negative_ratio |-> Ratio(negative_count, total_articles),
         neutral_ratio  |-> Ratio(neutral_count, total_articles),
         sentiment_bias_score |->
             [negative  |-> positive_count < negative_count,
              magnitude |->
                  Ratio(IF positive_count < negative_count
                        THEN negative_count - positive_count
                        ELSE positive_count - negative_count,
                        total_articles)]]

----------------------------------------------------------------------------
\* NewsAPIFetcher.  What requests.get does is the environment's choice: it
\* raises requests.Timeout or requests.ConnectionError, or it returns a
\* response with a status code and a body.
NoBody == [json |-> FALSE, status |-> "", articles |-> <<>>]
JsonBody(status, articles) ==
    [json |-> TRUE, status |-> status, articles |-> articles]

HttpResponse(code, body) == [kind |-> "response", code |-> code, body |-> body]
HttpTimeout         == [kind |-> "timeout",          code |-> 0, body |-> NoBody]
HttpConnectionError == [kind |-> "connection_error", code |-> 0, body |-> NoBody]

\* What one pass through the body of _make_request does with the outcome of
\* requests.get: return the parsed body, raise, or sleep and call itself.
Return(data) == [do |-> "return", data |-> data, error |-> "", code |-> 0]
Raise(error, code) ==
    [do |-> "raise", data |-> NoBody, error |-> error, code |-> code]
SleepAndRetry == [do |-> "retry", data |-> NoBody, error |-> "", code |-> 0]

make_request_retrying_401(got) ==
    IF got.kind = "timeout" THEN Raise("Request timeout", 0)
    ELSE IF got.kind = "connection_error" THEN Raise("Connection error", 0)
    ELSE IF got.code = 401 \/ got.code = 429 THEN SleepAndRetry
    ELSE IF got.code # 200 THEN Raise("API request failed", got.code)
    ELSE IF ~got.body.json THEN Raise("JSONDecodeError", 0)
    ELSE Return(got.body)

make_request(got) ==
    IF got.kind = "timeout" THEN Raise("Request timeout", 0)
    ELSE IF got.kind = "connection_error" THEN Raise("Connection error", 0)
    ELSE IF got.code = 401 THEN Raise("Invalid NewsAPI key", 0)
    ELSE IF got.code = 429 THEN SleepAndRetry
    ELSE IF got.code # 200 THEN Raise("API request failed", got.code)
    ELSE IF ~got.body.json THEN Raise("JSONDecodeError", 0)
    ELSE Return(got.body)

\* _clean_articles.  A raw article is seen through its title and description
\* (Missing: no such key; Null: a JSON null; or a string), its content (a
\* text; NoText when the key is missing; removed when it is "[Removed]") and
\* the url, publishedAt and source name it carries ("" when it has none).
Null == "<null>"

RawArticle(title, description, content, removed, url, publishedAt, name) ==
    [title |-> title, description |-> description, content |-> content,
     removed |-> removed, url |-> url, publishedAt |-> publishedAt,
     name |-> name]

\* len(f"{x}") for the titles and descriptions of the model: a null is
\* written "None", the other strings have 20 characters and no blanks around
Shown(x) == IF x = "" THEN 0 ELSE IF x = Null THEN 4 ELSE 20

\* f"{title}\n\n{description}\n\n{content}": strip() can only remove the
\* content's trailing whitespace (and what precedes it when nothing else is
\* left, which no article of the model has)
full_content(a) ==
    Text(0,
         Shown(a.title) + 2 + Shown(a.description) + 2
           + a.content.lead + a.content.core,
         a.content.trail)

\* the outcome of the loop body for one article: "skip" (continue), "raise"
\* (an exception, caught: the article is skipped) or "keep"
clean_article(a) ==
    IF a.title = Missing \/ a.description = Missing \/ ~a.content.present
    THEN "skip"
    ELSE IF StrLen(a.content) = 0 \/ a.removed THEN "skip"
    ELSE IF StripLen(full_content(a)) < 100 THEN "skip"
    ELSE IF a.title = Null \/ a.description = Null THEN "raise"
    ELSE "keep"

cleaned_article(a) ==
    [title |-> a.title, description |-> a.description,
     content |-> full_content(a),
     url |-> a.url, published_at |-> a.publishedAt,
     source |-> IF a.name = "" THEN "Unknown" ELSE a.name]

RawIsKept(a) == clean_article(a) = "keep"

clean_articles(articles) ==
    LET kept == SelectSeq(articles, RawIsKept)
    IN  [i \in 1..Len(kept) |-> cleaned_article(kept[i])]

\* fetch_news, when _make_request raised: the handler logs the exception and
\* raises it again
fetch_news_except_returning_empty(r) ==
    [outcome |-> "returned", error |-> r.error, code |-> r.code,
     articles |-> <<>>]

fetch_news_except(r) ==
    [outcome |-> "raised", error |-> r.error, code |-> r.code,
     articles |-> <<>>]

\* fetch_news, after _make_request returned data
fetch_news_result(data) ==
    IF data.status # "ok"
    THEN [outcome |-> "raised", error |-> "NewsAPI error", code |-> 0,
          articles |-> <<>>]
    ELSE [outcome |-> "returned", error |-> "", code |-> 0,
          articles |-> clean_articles(data.articles)]

----------------------------------------------------------------------------
\* TextSummarizer.  What the POST to /api/generate does is the environment's
\* choice: "text" (a 200 answer with a response text), "prefixed" (the text
\* starts with "Summary:"), "empty" (a 200 answer without text), "http_404",
\* "http_500", "timeout" or "connection_error".
MAX_SUMMARY_INPUT == 10000
MIN_SUMMARY_INPUT == 50
PROMPT_TEXT       == 3000

validate_summary_length(text) ==
    IF StrLen(text) = 0 \/ StripLen(text) < MIN_SUMMARY_INPUT THEN FALSE
    ELSE StrLen(text) <= MAX_SUMMARY_INPUT

\* summarize_text: the summary it returns, and whether it sent a request
summarize_text(text, llm) ==
    IF ~validate_summary_length(text)
    THEN [summary |-> "Text too short or too long for summarization.",
          requested |-> FALSE, prompt_text |-> 0]
    ELSE [summary |->
              CASE llm = "text"     -> "generated summary"
                [] llm = "prefixed" -> "generated summary"
                [] llm = "empty"    -> "Failed to generate summary."
                [] OTHER            -> "Error generating summary",
          requested |-> TRUE,
          prompt_text |-> Min(StrLen(text), PROMPT_TEXT)]

\* One turn of the loop of summarize_articles on articles[i] = item.article,
\* with the answer item.llm of the server: the summary stored in the article
\* and the events of the turn, in order.
summarize_article_sleeping_on_success(item, i) ==
    IF item.article.title = Null \/ ~item.article.content.present
    THEN [summary |-> "Failed to generate summary.", events |-> <<>>]
    ELSE LET r == summarize_text(item.article.content, item.llm)
         IN  [summary |-> r.summary,
              events |->
                  (IF r.requested
                   THEN <<[do |-> "generate", article |-> i]>> ELSE <<>>)
                  \o (IF r.summary = "generated summary"
                      THEN <<[do |-> "sleep", article |-> i]>> ELSE <<>>)]

summarize_article(item, i) ==
    IF item.article.title = Null \/ ~item.article.content.present
    THEN [summary |-> "Failed to generate summary.", events |-> <<>>]
    ELSE LET r == summarize_text(item.article.content, item.llm)
         IN  [summary |-> r.summary,
              events |->
                  (IF r.requested
                   THEN <<[do |-> "generate", article |-> i]>> ELSE <<>>)
                  \o <<[do |-> "sleep", article |-> i]>>]

RECURSIVE summarize_from(_, _, _, _)
summarize_from(items, i, summarized, events) ==
    IF i > Len(items)
    THEN [summarized_articles |-> summarized, events |-> events]
    ELSE summarize_from(items, i + 1,
             Append(summarized,
                    [article |-> items[i].article,
                     summary |-> summarize_article(items[i], i).summary]),
             events \o summarize_article(items[i], i).events)

\* (variant: an article whose turn ends in the except branch is left out)
summarize_articles_dropping_failures(items) ==
    summarize_from(
        SelectSeq(items, LAMBDA item :
            ~(item.article.title = Null \/ ~item.article.content.present)),
        1, <<>>, <<>>)

summarize_articles(items) == summarize_from(items, 1, <<>>, <<>>)

----------------------------------------------------------------------------
\* utils/validators.py.  For sanitize_query a query is the sequence of its
\* characters; for validate_query, which only measures it, a query is a text
\* given by its lengths.
Blank       == " "
DANGEROUS   == {"<", ">", "\"", "'"}

NotDangerous(c) == c \notin DANGEROUS

\* re.sub(r'[<>"\']', '', query): every character of the class is deleted
delete_dangerous(text) == SelectSeq(text, NotDangerous)

\* str.strip()
strip(str) ==
    IF \A i \in 1..Len(str) : str[i] = Blank THEN <<>>
    ELSE LET first == CHOOSE i \in 1..Len(str) :
                         str[i] # Blank /\ \A j \in 1..(i-1) : str[j] = Blank
             final == CHOOSE i \in 1..Len(str) :
                         str[i] # Blank
                           /\ \A j \in (i+1)..Len(str) : str[j] = Blank
         IN  SubSeq(str, first, final)

sanitize_query(text) == strip(delete_dangerous(text))

MIN_QUERY == 2
MAX_QUERY == 200

validate_query_unstripped(text) ==
    IF StrLen(text) = 0 \/ StripLen(text) = 0 THEN FALSE
    ELSE StrLen(text) >= MIN_QUERY /\ StrLen(text) <= MAX_QUERY

validate_query(text) ==
    IF StrLen(text) = 0 \/ StripLen(text) = 0 THEN FALSE
    ELSE StripLen(text) >= MIN_QUERY /\ StripLen(text) <= MAX_QUERY

----------------------------------------------------------------------------
\* NewsSummarizerApp (main.py).  What the user types is a sequence of
\* characters.
DEFAULT_QUERY == [i \in 1..23 |-> IF i = 11 THEN Blank ELSE "t"]

\* the text that validate_query measures, for a sequence of characters
measure(str) ==
    LET core == strip(str)
    IN  IF core = <<>> THEN Text(Len(str), 0, 0)
        ELSE LET first == CHOOSE i \in 1..Len(str) :
                             str[i] # Blank /\ \A j \in 1..(i-1) : str[j] = Blank
             IN  Text(first - 1, Len(core), Len(str) - Len(core) - (first - 1))

\* One entry of the trace of a handler: a call it made, the query the call
\* was given (<<>> when it takes none) and the number of articles it was
\* given or returned
Did(do, text, count) == [do |-> do, query |-> text, count |-> count]

FetchReturn(events, d, meta, summ, outcome, steps) ==
    [events |-> events, index |-> d, meta |-> meta, summ |-> summ,
     outcome |-> outcome, steps |-> steps]

\* the article dict after summarize_articles stored its summary in it
with_summary(x) == [summary |-> x.summary] @@ x.article

\* handle_fetch_news, after the query passed validation: fetch, summarize,
\* ingest.  got is the answer to the last request of fetch_news, llm what the
\* LLM server does with each article, e the environment of the ingestion.
fetch_summarize_ingest(text, events, got, llm, e, d, meta, summ) ==
    LET r       == make_request(got)
        fetched == IF r.do = "raise" THEN fetch_news_except(r)
                                     ELSE fetch_news_result(r.data)
        ev1     == Append(events, Did("fetch_news", text,
                                      Len(fetched.articles)))
    IN  IF fetched.outcome = "raised"
        THEN FetchReturn(ev1, d, meta, summ, "error", {})
        ELSE IF fetched.articles = <<>>
        THEN FetchReturn(ev1, d, meta, summ, "no_articles", {})
        ELSE
        LET items == [i \in 1..Len(fetched.articles) |->
                         [article |-> fetched.articles[i], llm |-> llm]]
            done  == summarize_articles(items).summarized_articles
            summarized == [i \in 1..Len(done) |-> with_summary(done[i])]
            ev2   == Append(ev1, Did("summarize_articles", <<>>,
                                     Len(fetched.articles)))
            ing   == ingest_documents(summarized, d, meta, summ, e)
            ev3   == Append(ev2, Did("ingest_documents", <<>>, Len(summarized)))
        IN  FetchReturn(ev3, ing.index, ing.meta, ing.summ,
                        IF ing.result THEN "stored" ELSE "not_stored",
                        ing.steps)

\* (variant: the query is validated as typed and sanitized afterwards)
handle_fetch_news_validating_first(typed, got, llm, e, d, meta, summ) ==
    LET stripped == strip(typed)
        given    == IF stripped = <<>> THEN DEFAULT_QUERY ELSE stripped
        ev       == <<Did("validate_query", given, 0)>>
    IN  IF ~validate_query(measure(given))
        THEN FetchReturn(ev, d, meta, summ, "invalid_query", {})
        ELSE fetch_summarize_ingest(
                 sanitize_query(given),
                 Append(ev, Did("sanitize_query", given, 0)),
                 got, llm, e, d, meta, summ)

\* handle_fetch_news(): typed is the answer to the prompt
handle_fetch_news(typed, got, llm, e, d, meta, summ) ==
    LET stripped  == strip(typed)
        given     == IF stripped = <<>> THEN DEFAULT_QUERY ELSE stripped
        sanitized == sanitize_query(given)
        ev        == <<Did("sanitize_query", given, 0),
                       Did("validate_query", sanitized, 0)>>
    IN  IF ~validate_query(measure(sanitized))
        THEN FetchReturn(ev, d, meta, summ, "invalid_query", {})
        ELSE fetch_summarize_ingest(sanitized, ev, got, llm, e, d, meta, summ)

\* handle_query_knowledge_base(): the result of query_engine.query, or
\* "no_question" when nothing was typed
handle_query_knowledge_base(typed, eng, invokeOk, picked) ==
    IF strip(typed) = <<>>
    THEN [asked |-> FALSE, question |-> <<>>, kind |-> "no_question",
          searched |-> <<>>, sources |-> <<>>]
    ELSE LET r == query(eng, invokeOk, picked)
         IN  [asked |-> TRUE, question |-> sanitize_query(strip(typed)),
              kind |-> r.kind, searched |-> r.searched, sources |-> r.sources]

\* handle_statistics()
handle_statistics(eng, d) ==
    [kb_info |-> get_knowledge_base_info(eng),
     store_info |-> get_store_info(d)]

\* handle_view_summaries(): "none" (no saved summaries found), "error"
\* (json.load raised, caught) or "shown" with the number of summaries
handle_view_summaries(summ) ==
    IF summ.state = "absent" THEN [shown |-> "none", count |-> 0]
    ELSE IF summ.state = "truncated" THEN [shown |-> "error", count |-> 0]
    ELSE [shown |-> "shown", count |-> summ.articles_count]

\* str.lower() on the letters of the answers
lower(str) ==
    [i \in 1..Len(str) |->
        CASE str[i] = "Y" -> "y"
          [] str[i] = "E" -> "e"
          [] str[i] = "S" -> "s"
          [] str[i] = "N" -> "n"
          [] OTHER -> str[i]]

CONFIRMATIONS == {<<"y">>, <<"y", "e", "s">>}

ClearStoreReturn(confirmed, cleared, d, meta, lc, eng) ==
    [confirmed |-> confirmed, cleared |-> cleared, index |-> d, meta |-> meta,
     lc |-> lc, engine |-> eng]

\* (variant: the empty answer takes the default to be yes)
handle_clear_vector_store_default_yes(answer, d, meta, lc, eng, e) ==
    IF lower(strip(answer)) \in CONFIRMATIONS \cup {<<>>}
    THEN LET r == clear_vector_store(d, meta, lc, e)
         IN  IF r.result
             THEN ClearStoreReturn(TRUE, TRUE, r.index, r.meta, r.lc,
                                   reload_vector_store(eng, r.index).engine)
             ELSE ClearStoreReturn(TRUE, FALSE, r.index, r.meta, r.lc, eng)
    ELSE ClearStoreReturn(FALSE, FALSE, d, meta, lc, eng)

\* handle_clear_vector_store(): answer is the answer to the confirmation
handle_clear_vector_store(answer, d, meta, lc, eng, e) ==
    IF lower(strip(answer)) \in CONFIRMATIONS
    THEN LET r == clear_vector_store(d, meta, lc, e)
         IN  IF r.result
             THEN ClearStoreReturn(TRUE, TRUE, r.index, r.meta, r.lc,
                                   reload_vector_store(eng, r.index).engine)
             ELSE ClearStoreReturn(TRUE, FALSE, r.index, r.meta, r.lc, eng)
    ELSE ClearStoreReturn(FALSE, FALSE, d, meta, lc, eng)

\* The if/elif chain of run(): the handler a choice is dispatched to; "exit"
\* for the break of choice 7, "invalid" for the else branch
dispatch_swapping_3_and_4(choice) ==
    CASE choice = "1" -> "handle_fetch_news"
      [] choice = "2" -> "handle_query_knowledge_base"
      [] choice = "3" -> "handle_view_summaries"
      [] choice = "4" -> "handle_statistics"
      [] choice = "5" -> "handle_clear_vector_store"
      [] choice = "6" -> "handle_settings"
      [] choice = "7" -> "exit"
      [] OTHER        -> "invalid"

dispatch(choice) ==
    CASE choice = "1" -> "handle_fetch_news"
      [] choice = "2" -> "handle_query_knowledge_base"
      [] choice = "3" -> "handle_statistics"
      [] choice = "4" -> "handle_view_summaries"
      [] choice = "5" -> "handle_clear_vector_store"
      [] choice = "6" -> "handle_settings"
      [] choice = "7" -> "exit"
      [] OTHER        -> "invalid"

----------------------------------------------------------------------------
\* State
VARIABLES
    index,       \* the directory at VECTOR_STORE_PATH
    metaFile,    \* data/ingestion_metadata.json
    summFile,    \* data/summaries.json
    lcMetaFile,  \* data/langchain_metadata.json exists
    engine,      \* RAGQueryEngine: llm, store, qa_chain
    last,        \* the last operation, its inputs and what it returned
    hist,        \* history: what has happened since the start / the last clear
    credibility_data,  \* CredibilityScorer.credibility_data["sources"]
    credFile,    \* data/source_credibility.json
    updates,     \* number of score_source_credibility calls so far
    fetcher,     \* the running fetch_news call: where it is, what it did
    app          \* NewsSummarizerApp.run: where it is, and self.running

kbVars   == <<index, metaFile, summFile, lcMetaFile, engine, hist>>
credVars == <<credibility_data, credFile, updates>>
vars     == <<index, metaFile, summFile, lcMetaFile, engine, last, hist,
              credibility_data, credFile, updates, fetcher, app>>

\* No fetch_news call is running
IdleFetcher ==
    [pc |-> "idle", requests |-> 0, sleeps |-> 0, got |-> <<>>,
     request |-> Return(NoBody),
     result |-> [outcome |-> "none", error |-> "", code |-> 0,
                 articles |-> <<>>]]

\* run() has not been called
StoppedApp == [pc |-> "stopped", running |-> TRUE]

\* Articles of the lifecycle specification: one that is split into two
\* chunks and one that validation rejects
LongArticle  == Article("t1", Text(0, 1001, 0), "s1", "u1", "p1")
BadArticle   == Article("t2", Text(1, 49, 0),   "s2", "u2", "p2")
LifecycleArticles == {LongArticle, BadArticle}

\* Articles of the validation specification: every required field absent and
\* empty in turn, and contents around the length limit
Contents ==
    {NoText, Text(0, 0, 0), Text(2, 0, 1), Text(1, 49, 0), Text(0, 50, 0),
     Text(0, 1001, 0)}
ValidationArticles ==
    {Article("t", c, "s", "u", "p") : c \in Contents}
    \cup {Article(x, Text(0, 50, 0), "s", "u", "p") : x \in {Missing, ""}}
    \cup {Article("t", Text(0, 50, 0), x, "u", "p") : x \in {Missing, ""}}
    \cup {Article("t", Text(0, 50, 0), "s", x, "p") : x \in {Missing, ""}}
    \cup {Article("t", Text(0, 50, 0), "s", "u", x) : x \in {Missing, ""}}

Lists(U, max) == UNION {[1..n -> U] : n \in 0..max}

\* The environment of one ingest call: every call succeeds, or one of them is
\* the first to fail (the calls after it are not made)
AllSucceed == [create |-> TRUE, add |-> TRUE, save |-> "ok", meta |-> "ok"]
IngestEnv ==
    {AllSucceed, [AllSucceed EXCEPT !.create = FALSE],
     [AllSucceed EXCEPT !.add = FALSE]}
    \cup {[AllSucceed EXCEPT !.save = o] : o \in SaveOutcomes}
    \cup {[AllSucceed EXCEPT !.meta = o] : o \in MetaOutcomes}

\* The environment of one clear call: every call succeeds, or one of them is
\* the first to fail
AllRemoved == [rmtree |-> "ok", rmMeta |-> TRUE, rmLc |-> TRUE]
ClearEnv ==
    {[AllRemoved EXCEPT !.rmtree = o] : o \in RmtreeOutcomes}
    \cup {[AllRemoved EXCEPT !.rmMeta = FALSE],
          [AllRemoved EXCEPT !.rmLc = FALSE]}

NoHistory == [okSinceClear |-> FALSE]

NoSources == [s \in {} |-> NewSourceRecord]

Init ==
    /\ index = AbsentIndex
    /\ metaFile = AbsentFile
    /\ summFile = AbsentFile
    /\ lcMetaFile \in BOOLEAN
    /\ \E ollamaUp \in BOOLEAN : engine = initialize(AbsentIndex, ollamaUp).engine
    /\ last = [op |-> "start"]
    /\ hist = NoHistory
    /\ credibility_data = NoSources
    /\ credFile = "absent"
    /\ updates = 0
    /\ fetcher = IdleFetcher
    /\ app = StoppedApp

\* ingestor.ingest_documents(articles)
Ingest ==
    \E articles \in Lists(LifecycleArticles, MaxBatch), e \in IngestEnv :
      \E r \in {ingest_documents(articles, index, metaFile, summFile, e)} :
          \* the call that e makes fail is one this ingest made
          /\ ~e.create => "load_or_create" \in r.steps /\ ~PathExists(index)
          /\ ~e.add => "add" \in r.steps
          /\ e.save # "ok" => "save" \in r.steps
          /\ e.meta # "ok" => "metadata" \in r.steps
          /\ Len(r.index.chunks) <= MaxChunks
          /\ index' = r.index
          /\ metaFile' = r.meta
          /\ summFile' = r.summ
          /\ last' = [op |-> "ingest", result |-> r.result,
                      steps |-> r.steps, failed |-> r.failed]
          /\ hist' = [okSinceClear |-> hist.okSinceClear \/ r.result]
          /\ UNCHANGED <<lcMetaFile, engine, credVars, fetcher, app>>

\* ingestor.clear_vector_store()
Clear ==
    \E e \in ClearEnv :
      \E r \in {clear_vector_store(index, metaFile, lcMetaFile, e)} :
          /\ index' = r.index
          /\ metaFile' = r.meta
          /\ lcMetaFile' = r.lc
          /\ last' = [op |-> "clear", result |-> r.result]
          /\ hist' = [hist EXCEPT !.okSinceClear = FALSE]
          /\ UNCHANGED <<summFile, engine, credVars, fetcher, app>>

AfterClearTrue == last.op = "clear" /\ last.result

\* ingestor.get_store_info()
StoreInfo ==
    /\ last' = [op |-> "store_info", info |-> get_store_info(index),
                afterClear |-> AfterClearTrue]
    /\ UNCHANGED <<kbVars, credVars, fetcher, app>>

\* query_engine.reload_vector_store()
Reload ==
    \E r \in {reload_vector_store(engine, index)} :
        /\ engine' = r.engine
        /\ last' = [op |-> "reload", report |-> r.report,
                    afterClear |-> AfterClearTrue]
        /\ UNCHANGED <<index, metaFile, summFile, lcMetaFile, hist, credVars, fetcher, app>>

\* A process restart: DocumentIngestor() and RAGQueryEngine() are constructed
\* anew over the files the previous process left.
Restart ==
    \E ollamaUp \in BOOLEAN :
      \E r \in {initialize(index, ollamaUp)} :
          /\ engine' = r.engine
          /\ last' = [op |-> "restart", report |-> r.report,
                      ollamaUp |-> ollamaUp,
                      afterClear |-> AfterClearTrue]
          /\ UNCHANGED <<index, metaFile, summFile, lcMetaFile, hist, credVars, fetcher, app>>

\* query_engine.query(question)
Query ==
    \E invokeOk \in BOOLEAN, picked \in Retrievals(engine.qa_chain.chunks) :
      \E r \in {query(engine, invokeOk, picked)} :
          /\ last' = [op |-> "query", kind |-> r.kind,
                      searched |-> r.searched, sources |-> r.sources,
                      afterRestart |-> (last.op = "restart" /\ last.ollamaUp)]
          /\ UNCHANGED <<kbVars, credVars, fetcher, app>>

Next ==
    \/ Ingest
    \/ Clear
    \/ StoreInfo
    \/ Reload
    \/ Restart
    \/ Query

Spec == Init /\ [][Next]_vars

\* The validation specification: one call of ingest_documents on a list
\* drawn from articles with every kind of defect.  The list is fixed by the
\* initial state and the call records the documents it built.
InitValidate ==
    /\ index = AbsentIndex
    /\ metaFile = AbsentFile
    /\ summFile = AbsentFile
    /\ lcMetaFile = FALSE
    /\ engine = NewEngineFields
    /\ \E articles \in Lists(ValidationArticles, MaxArticles) :
          last = [op |-> "call", input |-> articles]
    /\ hist = NoHistory
    /\ credibility_data = NoSources
    /\ credFile = "absent"
    /\ updates = 0
    /\ fetcher = IdleFetcher
    /\ app = StoppedApp

IngestGiven ==
    /\ last.op = "call"
    /\ \E e \in IngestEnv :
         \E r \in {ingest_documents(last.input, index, metaFile, summFile, e)} :
             /\ index' = r.index
             /\ metaFile' = r.meta
             /\ summFile' = r.summ
             /\ last' = [op |-> "ingested", input |-> last.input,
                         result |-> r.result, documents |-> r.documents,
                         steps |-> r.steps, failed |-> r.failed]
             /\ hist' = [okSinceClear |-> hist.okSinceClear \/ r.result]
             /\ UNCHANGED <<lcMetaFile, engine, credVars, fetcher, app>>

NextValidate == IngestGiven

SpecValidate == InitValidate /\ [][NextValidate]_vars

\* The credibility specification: a CredibilityScorer constructed with no
\* data file, and score_source_credibility calls for two sources.
Sources == {"Reuters", "Daily Blog"}

SourcedArticle ==
    [len |-> 1200, indicators |-> 5, red_flags |-> 0, pos |-> 1, neg |-> 0,
     focus |-> {"economy"}]
\* The article lists a source is scored with: the known source with and
\* without an article, the unknown one without
ScoredLists(source) ==
    IF source = "Reuters" THEN {<<>>, <<SourcedArticle>>} ELSE {<<>>}

InitCred ==
    /\ index = AbsentIndex
    /\ metaFile = AbsentFile
    /\ summFile = AbsentFile
    /\ lcMetaFile = FALSE
    /\ engine = NewEngineFields
    /\ last = [op |-> "start"]
    /\ hist = NoHistory
    /\ credibility_data = NoSources
    /\ credFile = "absent"
    /\ updates = 0
    /\ fetcher = IdleFetcher
    /\ app = StoppedApp

\* scorer.score_source_credibility(source, articles)
Score ==
    /\ updates < MaxUpdates
    /\ \E source \in Sources, out \in CredSaveOutcomes :
       \E articles \in ScoredLists(source) :
         \E r \in {score_source_credibility(credibility_data, source,
                                            articles)} :
            /\ credibility_data' = r.sources
            /\ credFile' = save_credibility_data(credFile, out)
            /\ updates' = updates + 1
            /\ last' = [op |-> "score", report |-> r.report]
            /\ UNCHANGED <<kbVars, fetcher, app>>

NextCred == Score

SpecCred == InitCred /\ [][NextCred]_vars

\* The fetch specification: one fetch_news call.  The server answers each
\* request as it likes; a 200 response carries a body that is not JSON, an
\* error report, or a list of raw articles.
RawArticles ==
    {RawArticle("Title", "Description", Text(0, 56, 2), FALSE, "u", "p", "Reuters"),
     RawArticle("Title", "Description", Text(0, 55, 3), FALSE, "u", "p", "Reuters"),
     RawArticle("Title", "Description", NoText,         FALSE, "u", "p", "Reuters"),
     RawArticle("Title", "Description", Text(0, 200, 0), TRUE, "u", "p", "Reuters"),
     RawArticle("Title", Null,          Text(0, 200, 0), FALSE, "u", "p", "Reuters"),
     RawArticle("Title", "Description", Text(0, 200, 0), FALSE, "", "", "")}

Bodies ==
    {NoBody, JsonBody("error", <<>>)}
    \cup {JsonBody("ok", articles) : articles \in Lists(RawArticles, MaxFetched)}

StatusCodes == {401, 404, 429, 500}

HttpOutcomes ==
    {HttpTimeout, HttpConnectionError}
    \cup {HttpResponse(code, NoBody) : code \in StatusCodes}
    \cup {HttpResponse(200, body) : body \in Bodies}

InitFetch ==
    /\ index = AbsentIndex
    /\ metaFile = AbsentFile
    /\ summFile = AbsentFile
    /\ lcMetaFile = FALSE
    /\ engine = NewEngineFields
    /\ last = [op |-> "start"]
    /\ hist = NoHistory
    /\ credibility_data = NoSources
    /\ credFile = "absent"
    /\ updates = 0
    /\ fetcher = IdleFetcher
    /\ app = StoppedApp

\* fetcher.fetch_news(query): builds the parameters and calls _make_request
FetchNews ==
    /\ fetcher.pc = "idle"
    /\ fetcher' = [fetcher EXCEPT !.pc = "get"]
    /\ UNCHANGED <<kbVars, credVars, last, app>>

\* one pass through _make_request: _rate_limit, requests.get, and what the
\* code does with the answer; when it returns or raises, the rest of
\* fetch_news runs
HttpGet ==
    /\ fetcher.pc = "get"
    /\ fetcher.requests < MaxRequests
    /\ \E got \in HttpOutcomes :
         \E r \in {make_request(got)} :
            /\ fetcher' =
                 [pc |-> IF r.do = "retry" THEN "sleep" ELSE "done",
                  requests |-> fetcher.requests + 1,
                  sleeps |-> fetcher.sleeps,
                  got |-> Append(fetcher.got,
                                 [kind |-> got.kind, code |-> got.code]),
                  request |-> r,
                  result |->
                      CASE r.do = "retry"  -> fetcher.result
                        [] r.do = "raise"  -> fetch_news_except(r)
                        [] r.do = "return" -> fetch_news_result(r.data)]
            /\ UNCHANGED <<kbVars, credVars, last, app>>

\* time.sleep(60), then _make_request calls itself
Sleep60 ==
    /\ fetcher.pc = "sleep"
    /\ fetcher' = [fetcher EXCEPT !.pc = "get", !.sleeps = @ + 1]
    /\ UNCHANGED <<kbVars, credVars, last, app>>

NextFetch ==
    \/ FetchNews
    \/ HttpGet
    \/ Sleep60

SpecFetch == InitFetch /\ [][NextFetch]_vars

\* The summarizer specification: summarize_articles called once on a list of
\* articles, each paired with what the LLM server does if it is asked to
\* summarize it.
SummarizedArticles ==
    {[title |-> "Title", content |-> Text(0, 200, 0)],
     [title |-> "Title", content |-> Text(2, 49, 0)],
     [title |-> "Title", content |-> Text(0, 10001, 0)],
     [title |-> "Title", content |-> NoText],
     [title |-> Null,    content |-> Text(0, 200, 0)]}

LLMOutcomes == {"text", "prefixed", "empty", "http_500", "connection_error"}

SummarizerItems ==
    {[article |-> a, llm |-> o] : a \in SummarizedArticles, o \in LLMOutcomes}

InitSummarize ==
    /\ index = AbsentIndex
    /\ metaFile = AbsentFile
    /\ summFile = AbsentFile
    /\ lcMetaFile = FALSE
    /\ engine = NewEngineFields
    /\ hist = NoHistory
    /\ credibility_data = NoSources
    /\ credFile = "absent"
    /\ updates = 0
    /\ fetcher = IdleFetcher
    /\ app = StoppedApp
    /\ \E items \in Lists(SummarizerItems, MaxSummarized) :
          last = [op |-> "summarize_call", input |-> items]

SummarizeArticles ==
    /\ last.op = "summarize_call"
    /\ last' = [op |-> "summarized", input |-> last.input,
                result |-> summarize_articles(last.input)]
    /\ UNCHANGED <<kbVars, credVars, fetcher, app>>

NextSummarize == SummarizeArticles

SpecSummarize == InitSummarize /\ [][NextSummarize]_vars

\* The query specification: an engine constructed (LLM server reachable) over
\* an index that holds the chunks of up to MaxIndexed ingested articles, and
\* queries on it.
QueryArticles ==
    {Article("t1", Text(0, 50, 0),   "s1", "u1", "p1"),
     Article("t2", Text(0, 200, 0),  "s2", "u2", "p2"),
     Article("t3", Text(0, 201, 0),  "s3", "u3", "p3"),
     Article("t4", Text(0, 1001, 0), "s4", "u4", "p4")}

InitQuery ==
    /\ metaFile = AbsentFile
    /\ summFile = AbsentFile
    /\ lcMetaFile = FALSE
    /\ last = [op |-> "start"]
    /\ hist = NoHistory
    /\ credibility_data = NoSources
    /\ credFile = "absent"
    /\ updates = 0
    /\ fetcher = IdleFetcher
    /\ app = StoppedApp
    /\ \E articles \in Lists(QueryArticles, MaxIndexed) :
          \E r \in {ingest_documents(articles, AbsentIndex, AbsentFile,
                                     AbsentFile, AllSucceed)} :
            /\ r.result
            /\ index = r.index
            /\ engine = initialize(r.index, TRUE).engine

NextQuery == Query

SpecQuery == InitQuery /\ [][NextQuery]_vars

\* The sanitizer specification: sanitize_query called once on a query made
\* of letters, blanks, angle brackets and quotes.
QueryCharacters == {"t", "s", Blank, "<", ">", "\"", "'"}

InitSanitize ==
    /\ index = AbsentIndex
    /\ metaFile = AbsentFile
    /\ summFile = AbsentFile
    /\ lcMetaFile = FALSE
    /\ engine = NewEngineFields
    /\ hist = NoHistory
    /\ credibility_data = NoSources
    /\ credFile = "absent"
    /\ updates = 0
    /\ fetcher = IdleFetcher
    /\ app = StoppedApp
    /\ \E text \in Lists(QueryCharacters, MaxQueryLen) :
          last = [op |-> "sanitize_call", input |-> text]

SanitizeQuery ==
    /\ last.op = "sanitize_call"
    /\ last' = [op |-> "sanitized", input |-> last.input,
                result |-> sanitize_query(last.input)]
    /\ UNCHANGED <<kbVars, credVars, fetcher, app>>

NextSanitize == SanitizeQuery

SpecSanitize == InitSanitize /\ [][NextSanitize]_vars

\* The query validation specification: validate_query called once on a
\* query with up to MaxBlanks blanks before and after a core of up to
\* MaxCore characters, or of 300.
QueryTexts ==
    {Text(l, c, t) : l \in 0..MaxBlanks, t \in 0..MaxBlanks,
                     c \in (1..MaxCore) \cup {300}}
    \cup {Text(l, 0, 0) : l \in 0..MaxBlanks}

InitValidateQuery ==
    /\ index = AbsentIndex
    /\ metaFile = AbsentFile
    /\ summFile = AbsentFile
    /\ lcMetaFile = FALSE
    /\ engine = NewEngineFields
    /\ hist = NoHistory
    /\ credibility_data = NoSources
    /\ credFile = "absent"
    /\ updates = 0
    /\ fetcher = IdleFetcher
    /\ app = StoppedApp
    /\ \E text \in QueryTexts :
          last = [op |-> "validate_query_call", input |-> text]

ValidateQuery ==
    /\ last.op = "validate_query_call"
    /\ last' = [op |-> "validated_query", input |-> last.input,
                result |-> validate_query(last.input)]
    /\ UNCHANGED <<kbVars, credVars, fetcher, app>>

NextValidateQuery == ValidateQuery

SpecValidateQuery == InitValidateQuery /\ [][NextValidateQuery]_vars

\* The sentiment specification: _analyze_sentiment_bias called once on a
\* list of articles that are positive, negative or neutral.
SentimentArticles ==
    {[positive_score |-> 1, negative_score |-> 0],
     [positive_score |-> 0, negative_score |-> 2],
     [positive_score |-> 1, negative_score |-> 1]}

InitSentiment ==
    /\ index = AbsentIndex
    /\ metaFile = AbsentFile
    /\ summFile = AbsentFile
    /\ lcMetaFile = FALSE
    /\ engine = NewEngineFields
    /\ hist = NoHistory
    /\ credibility_data = NoSources
    /\ credFile = "absent"
    /\ updates = 0
    /\ fetcher = IdleFetcher
    /\ app = StoppedApp
    /\ \E articles \in Lists(SentimentArticles, MaxSentiment) :
          last = [op |-> "sentiment_call", input |-> articles]

AnalyzeSentiment ==
    /\ last.op = "sentiment_call"
    /\ last' = [op |-> "sentiment", input |-> last.input,
                result |-> analyze_sentiment_bias(last.input)]
    /\ UNCHANGED <<kbVars, credVars, fetcher, app>>

NextSentiment == AnalyzeSentiment

SpecSentiment == InitSentiment /\ [][NextSentiment]_vars

\* The application specification: the menu loop of run().  A step of the
\* loop is the test of self.running, or one choice typed at the prompt with
\* the whole handler it is dispatched to.  A signal can be delivered while
\* the loop is running: between two turns or while input() waits (input()
\* goes on waiting when the Python-level handler has returned).  After the
\* loop has ended the program can be run again over the files it left.
Choices == {"1", "2", "3", "4", "5", "6", "7", "8", ""}

AppQueries ==
    {<<>>, <<"t", "s">>, <<Blank, "t", "s">>, <<"t", "<">>,
     <<"<", "t", "s", ">">>}

GoodRaw  == RawArticle("Title", "Description", Text(0, 200, 0), FALSE,
                       "u", "p", "Reuters")
NoUrlRaw == RawArticle("Title", "Description", Text(0, 200, 0), FALSE,
                       "", "p", "Reuters")

AppHttpOutcomes ==
    {HttpTimeout, HttpResponse(401, NoBody),
     HttpResponse(200, JsonBody("ok", <<>>)),
     HttpResponse(200, JsonBody("ok", <<GoodRaw>>)),
     HttpResponse(200, JsonBody("ok", <<NoUrlRaw, GoodRaw>>))}

AppLLMOutcomes == {"text", "connection_error"}

\* the ingestion succeeds, or add_documents fails
AppIngestEnv == {AllSucceed, [AllSucceed EXCEPT !.add = FALSE]}

Answers ==
    {<<>>, <<"y">>, <<"Y">>, <<"y", "e", "s">>, <<Blank, "Y", "E", "S">>,
     <<"n">>, <<"y", "e">>, <<"y", "e", "s", "s">>}

InitApp ==
    /\ index = AbsentIndex
    /\ metaFile = AbsentFile
    /\ summFile = AbsentFile
    /\ lcMetaFile \in BOOLEAN
    /\ engine = NewEngineFields
    /\ last = [op |-> "start"]
    /\ hist = NoHistory
    /\ credibility_data = NoSources
    /\ credFile = "absent"
    /\ updates = 0
    /\ fetcher = IdleFetcher
    /\ app = StoppedApp

\* main(): NewsSummarizerApp().run() up to the loop: initialize() and the
\* installation of the signal handlers
Run ==
    /\ app.pc \in {"stopped", "exited"}
    /\ \E keyOk \in BOOLEAN, ollamaUp \in BOOLEAN :
          /\ app' = [pc |-> IF keyOk THEN "loop" ELSE "exited",
                     running |-> TRUE]
          /\ engine' = IF keyOk THEN initialize(index, ollamaUp).engine
                                ELSE NewEngineFields
          /\ last' = [op |-> "run", initialized |-> keyOk]
          /\ hist' = NoHistory
    /\ UNCHANGED <<index, metaFile, summFile, lcMetaFile, credVars, fetcher>>

\* while self.running: display_menu() and the prompt, or the end of the loop
WhileRunning ==
    /\ app.pc = "loop"
    /\ app' = [app EXCEPT !.pc = IF app.running THEN "prompt" ELSE "exited"]
    /\ last' = [op |-> IF app.running THEN "display_menu" ELSE "loop_ended"]
    /\ UNCHANGED <<kbVars, credVars, fetcher>>

\* _signal_handler, for a SIGINT or SIGTERM
Signal ==
    /\ app.pc \in {"loop", "prompt"}
    /\ app' = [app EXCEPT !.running = FALSE]
    /\ last' = [op |-> "signal"]
    /\ UNCHANGED <<kbVars, credVars, fetcher>>

\* what a turn of the loop records: the choice, the handler it ran, whether
\* a signal had been delivered before, whether an exception was raised in
\* the handler, and what the handler did
Turn(choice, raised, did) ==
    [op |-> "handler", choice |-> choice, handler |-> dispatch(choice),
     signalled |-> ~app.running, raised |-> raised, did |-> did]

HandleFetchNews ==
    /\ app.pc = "prompt"
    /\ \E choice \in Choices :
          /\ dispatch(choice) = "handle_fetch_news"
          /\ \E typed \in AppQueries, got \in AppHttpOutcomes,
                llm \in AppLLMOutcomes, e \in AppIngestEnv :
               \E r \in {handle_fetch_news(typed, got, llm, e, index,
                                            metaFile, summFile)} :
                  \* the call that e makes fail is one the ingestion made
                  /\ ~e.add => "add" \in r.steps
                  /\ Len(r.index.chunks) <= MaxStored
                  /\ index' = r.index
                  /\ metaFile' = r.meta
                  /\ summFile' = r.summ
                  /\ hist' = [okSinceClear |->
                                 hist.okSinceClear \/ r.outcome = "stored"]
                  /\ last' = Turn(choice, r.outcome = "error",
                                  [typed |-> typed, events |-> r.events,
                                   outcome |-> r.outcome])
    /\ app' = [app EXCEPT !.pc = "loop"]
    /\ UNCHANGED <<lcMetaFile, engine, credVars, fetcher>>

HandleQuery ==
    /\ app.pc = "prompt"
    /\ \E choice \in Choices :
          /\ dispatch(choice) = "handle_query_knowledge_base"
          /\ \E typed \in {<<>>, <<"t", "s">>}, invokeOk \in BOOLEAN,
                picked \in Retrievals(engine.qa_chain.chunks) :
               last' = Turn(choice, FALSE,
                            handle_query_knowledge_base(typed, engine,
                                                        invokeOk, picked)
                              @@ [ingested |-> hist.okSinceClear])
    /\ app' = [app EXCEPT !.pc = "loop"]
    /\ UNCHANGED <<kbVars, credVars, fetcher>>

HandleStatistics ==
    /\ app.pc = "prompt"
    /\ \E choice \in Choices :
          /\ dispatch(choice) = "handle_statistics"
          /\ last' = Turn(choice, FALSE, handle_statistics(engine, index))
    /\ app' = [app EXCEPT !.pc = "loop"]
    /\ UNCHANGED <<kbVars, credVars, fetcher>>

HandleViewSummaries ==
    /\ app.pc = "prompt"
    /\ \E choice \in Choices :
          /\ dispatch(choice) = "handle_view_summaries"
          /\ \E r \in {handle_view_summaries(summFile)} :
                last' = Turn(choice, r.shown = "error", r)
    /\ app' = [app EXCEPT !.pc = "loop"]
    /\ UNCHANGED <<kbVars, credVars, fetcher>>

HandleClearVectorStore ==
    /\ app.pc = "prompt"
    /\ \E choice \in Choices :
          /\ dispatch(choice) = "handle_clear_vector_store"
          /\ \E answer \in Answers, e \in ClearEnv :
               \E r \in {handle_clear_vector_store(answer, index, metaFile,
                                                    lcMetaFile, engine, e)} :
                  /\ index' = r.index
                  /\ metaFile' = r.meta
                  /\ lcMetaFile' = r.lc
                  /\ engine' = r.engine
                  /\ hist' = [okSinceClear |->
                                 hist.okSinceClear /\ ~r.confirmed]
                  /\ last' = Turn(choice, FALSE,
                                  [answer |-> answer,
                                   confirmed |-> r.confirmed,
                                   cleared |-> r.cleared,
                                   wasLoaded |-> engine.qa_chain.set])
    /\ app' = [app EXCEPT !.pc = "loop"]
    /\ UNCHANGED <<summFile, credVars, fetcher>>

\* handle_settings() has no try of its own: an exception in it (a print
\* that fails) is caught by the loop
HandleSettings ==
    /\ app.pc = "prompt"
    /\ \E choice \in Choices :
          /\ dispatch(choice) = "handle_settings"
          /\ \E raised \in BOOLEAN :
                last' = Turn(choice, raised, [settings_shown |-> ~raised])
    /\ app' = [app EXCEPT !.pc = "loop"]
    /\ UNCHANGED <<kbVars, credVars, fetcher>>

\* choice 7: break
Exit ==
    /\ app.pc = "prompt"
    /\ \E choice \in Choices :
          /\ dispatch(choice) = "exit"
          /\ last' = [op |-> "exit", choice |-> choice]
    /\ app' = [app EXCEPT !.pc = "exited"]
    /\ UNCHANGED <<kbVars, credVars, fetcher>>

\* any other input: "Invalid choice"
InvalidChoice ==
    /\ app.pc = "prompt"
    /\ \E choice \in Choices :
          /\ dispatch(choice) = "invalid"
          /\ last' = [op |-> "invalid", choice |-> choice]
    /\ app' = [app EXCEPT !.pc = "loop"]
    /\ UNCHANGED <<kbVars, credVars, fetcher>>

NextApp ==
    \/ Run
    \/ WhileRunning
    \/ Signal
    \/ HandleFetchNews
    \/ HandleQuery
    \/ HandleStatistics
    \/ HandleViewSummaries
    \/ HandleClearVectorStore
    \/ HandleSettings
    \/ Exit
    \/ InvalidChoice

SpecApp == InitApp /\ [][NextApp]_vars

----------------------------------------------------------------------------
\* Properties of ingestion (SpecValidate)

\* The claims' reading of an article, written without the code's helpers
NonEmpty(v) == v # Missing /\ v # ""

HasAllFields(a) ==
    /\ NonEmpty(a.title)
    /\ NonEmpty(a.source)
    /\ NonEmpty(a.url)
    /\ NonEmpty(a.published_at)
    /\ a.content.present
    /\ a.content.lead + a.content.core + a.content.trail > 0

LacksAField(a) == ~HasAllFields(a)

IngestibleArticle(a) == HasAllFields(a) /\ a.content.core >= 50

DocumentOf(a) ==
    [page_content |-> a.content,
     metadata |-> [title |-> a.title, source |-> a.source, url |-> a.url,
                   published_at |-> a.published_at]]

\* C1: an article lacking one of title, content, source, url, published_at
\* (absent or empty) is never turned into a Document; the Documents built are
\* exactly those of the input articles that have all five fields non-empty
\* and pass the length check, in input order.
C1_DocumentsAreTheValidArticles ==
    last.op = "ingested" =>
        LET kept == SelectSeq(last.input, IngestibleArticle)
        IN  /\ last.documents = [i \in 1..Len(kept) |-> DocumentOf(kept[i])]
            /\ \A i \in 1..Len(last.documents) :
                  \E j \in 1..Len(last.input) :
                     /\ ~LacksAField(last.input[j])
                     /\ last.documents[i] = DocumentOf(last.input[j])

C1_Witness ==
    /\ last.op = "ingested"
    /\ \E j \in 1..Len(last.input) : LacksAField(last.input[j])
    /\ Len(last.documents) = 1
    /\ Len(last.input) = 2

\* C2 as stated: content shorter than 50 characters is dropped and content
\* of 50 or more characters (all fields present) is kept; when every article
\* is dropped the call returns False without loading or creating an index.
FiftyOrMoreCharacters(a) ==
    HasAllFields(a) /\ a.content.lead + a.content.core + a.content.trail >= 50

C2_AsStated ==
    last.op = "ingested" =>
        /\ Len(last.documents) =
              Cardinality({j \in 1..Len(last.input) :
                              FiftyOrMoreCharacters(last.input[j])})
        /\ (last.documents = <<>> =>
              ~last.result /\ last.steps = {} /\ index = AbsentIndex)

\* C2 amended: the length that decides is the length of the content with
\* leading and trailing whitespace stripped.  Content whose stripped length is
\* below 50 is dropped, content of stripped length 50 or more (all fields
\* present) is kept, each article is decided once, and when every article is
\* dropped the call returns False without loading or creating an index.
C2_StrippedLengthDecides ==
    last.op = "ingested" =>
        /\ \A i \in 1..Len(last.documents) :
              last.documents[i].page_content.core >= 50
        /\ Len(last.documents) =
              Cardinality({j \in 1..Len(last.input) :
                              IngestibleArticle(last.input[j])})
        /\ (last.documents = <<>> =>
              ~last.result /\ last.steps = {} /\ index = AbsentIndex)

C2_Witness ==
    /\ last.op = "ingested"
    /\ \E j \in 1..Len(last.input) :
          /\ FiftyOrMoreCharacters(last.input[j])
          /\ last.input[j].content.core < 50
    /\ last.documents = <<>>
    /\ ~last.result

----------------------------------------------------------------------------
\* Properties of the lifecycle (Spec)

\* C3: a query on an engine that has no index loaded returns the
\* "Knowledge base not loaded" error, whether or not an LLM was created.
C3_QueryWithoutIndexIsNotLoaded ==
    (last.op = "query" /\ ~engine.store.set) => last.kind = "not_loaded"

C3_Witness ==
    /\ last.op = "query"
    /\ ~engine.store.set
    /\ ~engine.llm
    /\ index.state = "ok"
    /\ last.kind = "not_loaded"

\* C4: after clear_vector_store returned True the index directory does not
\* exist, and the load step or get_store_info that follows reports it as
\* not found.
C4_ClearedStoreIsNotFound ==
    /\ (last.op = "clear" /\ last.result) => index.state = "absent"
    /\ (last.op = "reload" /\ last.afterClear) => last.report = "not_found"
    /\ (last.op = "restart" /\ last.afterClear /\ last.ollamaUp)
          => last.report = "not_found"
    /\ (last.op = "store_info" /\ last.afterClear) => ~last.info.exists

C4_Witness ==
    /\ last.op = "reload"
    /\ last.afterClear
    /\ last.report = "not_found"
    /\ engine.store.set
    /\ Len(engine.store.chunks) > NumChunks(StrLen(LongArticle.content))

\* C5: after ingest_documents returned True and no clear since, a newly
\* constructed engine (LLM server reachable) loads the persisted index,
\* reports it loaded, and its query searches exactly the persisted chunks.
C5_RestartLoadsPersistedIndex ==
    /\ (last.op = "restart" /\ last.ollamaUp /\ hist.okSinceClear) =>
          /\ last.report = "loaded"
          /\ get_knowledge_base_info(engine).loaded
          /\ index.state = "ok"
          /\ engine.store.chunks = index.chunks
    /\ (last.op = "query" /\ last.afterRestart /\ hist.okSinceClear) =>
          /\ last.kind # "not_loaded"
          /\ index.state = "ok"
          /\ last.searched = index.chunks

\* C6: an ingestion that returns True leaves on disk the chunks that were
\* there before followed by the chunks of this call (starting from an empty
\* index when none existed), and between two clears the persisted chunks
\* never shrink.
IsPrefix(s, t) == Len(s) <= Len(t) /\ SubSeq(t, 1, Len(s)) = s

C6_IngestionAppends ==
    [][ /\ (last'.op = "ingest" /\ last'.result) =>
              /\ index'.state = "ok"
              /\ \E articles \in Lists(LifecycleArticles, MaxBatch) :
                    /\ SelectSeq(articles, IngestibleArticle) # <<>>
                    /\ index'.chunks = index.chunks
                          \o all_chunks(make_documents(
                                 SelectSeq(articles, IngestibleArticle)))
        /\ last'.op # "clear" => IsPrefix(index.chunks, index'.chunks)
      ]_vars

\* C7 as stated: ingest_documents returns True only when every step
\* succeeded, and False when any step failed, the side files included.
C7_AsStated ==
    last.op = "ingest" =>
        /\ last.failed # {} => ~last.result
        /\ last.result =>
              last.steps = {"load_or_create", "add", "save", "metadata"}

\* C7 amended: a failure of loading or creating the index, of the add call or
\* of saving the index makes ingest_documents return False; it returns True
\* exactly when these three steps succeeded for a non-empty list of valid
\* articles.  A failure while writing the side files is logged and does not
\* change the result.
IndexSteps == {"load_or_create", "add", "save"}

C7_IndexStepFailureReturnsFalse ==
    last.op = "ingest" =>
        /\ (last.failed \cap IndexSteps # {}) => ~last.result
        /\ last.result <=>
              (IndexSteps \subseteq last.steps
                 /\ last.failed \cap IndexSteps = {})

C7_Witness ==
    /\ last.op = "ingest"
    /\ last.result
    /\ last.failed = {"metadata"}
    /\ summFile.state = "truncated"

\* C8: whenever ingest_documents returns False the index directory and the
\* two side files are as they were before the call.
C8_FailedIngestLeavesDiskUnchanged ==
    [][ (last'.op = "ingest" /\ ~last'.result) =>
            /\ index' = index
            /\ metaFile' = metaFile
            /\ summFile' = summFile
      ]_vars

\* C9: the index on disk is always either absent or loadable.
C9_IndexAbsentOrLoadable ==
    /\ index.state \in {"absent", "ok"}
    /\ last.op = "store_info" =>
          (last.info.exists => last.info.document_count >= 0)

----------------------------------------------------------------------------
\* Properties of the credibility history (SpecCred)

\* C10: the history stored for a source never holds more than 10 entries
\* after a score_source_credibility call, however many calls were made.
C10_HistoryAtMostTen ==
    \A source \in DOMAIN credibility_data :
        Len(credibility_data[source].history) <= 10

C10_Witness ==
    /\ updates > 10
    /\ last.op = "score"
    /\ \E source \in DOMAIN credibility_data :
          /\ last.report.source = source
          /\ credibility_data[source].article_count > 10
          /\ Len(credibility_data[source].history) = 10

\* The scores a source's history holds, oldest first (none for a source that
\* was never scored)
HistoryScores(data, source) ==
    IF source \in DOMAIN data
    THEN [i \in 1..Len(data[source].history) |->
             data[source].history[i].credibility_score]
    ELSE <<>>

RECURSIVE TotalEntries(_, _)
TotalEntries(data, S) ==
    IF S = {} THEN 0
    ELSE LET s == CHOOSE x \in S : TRUE
         IN  Len(HistoryScores(data, s)) + TotalEntries(data, S \ {s})

\* C11: the history of a source is an append-only log trimmed oldest-first.
\* A call for a source puts the score it reports at the end of that source's
\* history, keeps the earlier scores in their order and drops the oldest one
\* when there would be more than 10; the history of every other source is
\* left as it was; and while at most 10 calls were made nothing is dropped.
C11_HistoryIsTheRecentScores ==
    /\ [](updates <= 10 => TotalEntries(credibility_data, Sources) = updates)
    /\ [][ \A source \in Sources :
              IF last'.op = "score" /\ last'.report.source = source
              THEN LET all == Append(HistoryScores(credibility_data, source),
                                     last'.report.overall_credibility)
                       n   == IF Len(all) > 10 THEN 10 ELSE Len(all)
                   IN  HistoryScores(credibility_data', source)
                         = SubSeq(all, Len(all) - n + 1, Len(all))
              ELSE /\ (source \in DOMAIN credibility_data')
                         = (source \in DOMAIN credibility_data)
                   /\ source \in DOMAIN credibility_data =>
                         credibility_data'[source] = credibility_data[source]
        ]_vars

\* the eleventh call for one source, its history holding different scores,
\* made after a call for the other source
C11_Witness ==
    /\ updates = 12
    /\ DOMAIN credibility_data = Sources
    /\ \E source \in Sources :
          LET scores == HistoryScores(credibility_data, source)
          IN  /\ last.report.source = source
              /\ Len(scores) = 10
              /\ scores[1] # scores[2]
              /\ scores[10] = last.report.overall_credibility
              /\ scores[10] # scores[9]

\* The sum of the scores at the positions 1..n of a history
RECURSIVE ScoreTotal(_, _)
ScoreTotal(history, n) ==
    IF n = 0 THEN 0
    ELSE history[n].credibility_score + ScoreTotal(history, n - 1)

\* C12: after every update of a source's record, average_credibility is the
\* arithmetic mean of the credibility_score of the entries its history
\* retains: their sum divided by their number.
C12_AverageIsMeanOfRetained ==
    \A source \in DOMAIN credibility_data :
        LET record == credibility_data[source]
        IN  /\ record.history # <<>>
            /\ record.average_credibility.count = Len(record.history)
            /\ record.average_credibility.sum
                  = ScoreTotal(record.history, Len(record.history))

\* a source whose oldest score was dropped: a score given with an article
\* (the record counts more articles than the retained entries do), while a
\* lower score given without one is retained
C12_Witness ==
    \E source \in DOMAIN credibility_data :
        LET record == credibility_data[source]
            counts == [i \in 1..Len(record.history) |->
                          record.history[i].article_count]
        IN  /\ Len(record.history) = 10
            /\ record.article_count > SumSeq(counts)
            /\ \E i \in 1..10 : counts[i] = 0
            /\ record.average_credibility.sum * 11
                  # (record.average_credibility.sum + 8200) * 10

----------------------------------------------------------------------------
\* Properties of the sentiment analysis (SpecSentiment)

\* x + y on bit sequences of one length, from the last place to the first
RECURSIVE AddBits(_, _, _, _, _)
AddBits(x, y, i, carry, acc) ==
    IF i = 0 THEN [carry |-> carry, bits |-> acc]
    ELSE AddBits(x, y, i - 1, (x[i] + y[i] + carry) \div 2,
                 <<(x[i] + y[i] + carry) % 2>> \o acc)

\* a + b of two floats that are not negative, as Python adds them
FloatAdd(a, b) ==
    IF a.zero THEN b
    ELSE IF b.zero THEN a
    ELSE
    LET hi == IF a.exp >= b.exp THEN a ELSE b
        lo == IF a.exp >= b.exp THEN b ELSE a
        d  == hi.exp - lo.exp
        s  == AddBits(hi.bits \o Zeros(d), Zeros(d) \o lo.bits,
                      MANTISSA + d, 0, <<>>)
        full == IF s.carry = 1 THEN <<1>> \o s.bits ELSE s.bits
        up == /\ Len(full) > MANTISSA
              /\ full[MANTISSA + 1] = 1
              /\ \/ full[MANTISSA] = 1
                 \/ \E i \in (MANTISSA + 2)..Len(full) : full[i] = 1
    IN  RoundedFloat(hi.exp + s.carry, SubSeq(full, 1, MANTISSA), up)

RatioSum(result) ==
    FloatAdd(FloatAdd(result.positive_ratio, result.negative_ratio),
             result.neutral_ratio)

\* 1.0 and the floats next to it: 1 - 2^-53 and 1 + 2^-52
FloatOne == [zero |-> FALSE, exp |-> 0, bits |-> <<1>> \o Zeros(52)]
FloatBelowOne == [zero |-> FALSE, exp |-> -1, bits |-> [i \in 1..53 |-> 1]]
FloatAboveOne ==
    [zero |-> FALSE, exp |-> 0,
     bits |-> [i \in 1..53 |-> IF i \in {1, 53} THEN 1 ELSE 0]]

CountsSumToTotal(articles, result) ==
    /\ result.positive_count + result.negative_count + result.neutral_count
          = Len(articles)
    /\ result.positive_count
          = Cardinality({i \in 1..Len(articles) :
               articles[i].positive_score > articles[i].negative_score})
    /\ result.negative_count
          = Cardinality({i \in 1..Len(articles) :
               articles[i].positive_score < articles[i].negative_score})

\* C13 as stated: for a non-empty list the three counts sum to the number of
\* articles and positive_ratio + negative_ratio + neutral_ratio equals 1.0.
C13_AsStated ==
    (last.op = "sentiment" /\ last.input # <<>>) =>
        /\ CountsSumToTotal(last.input, last.result)
        /\ RatioSum(last.result) = FloatOne

\* C13: for a non-empty list every article is counted in exactly one bucket,
\* so the three counts sum to the number of articles, and the float sum
\* positive_ratio + negative_ratio + neutral_ratio is 1.0 or one of the two
\* floats next to it.
C13_RatiosSumToOneWithinRounding ==
    (last.op = "sentiment" /\ last.input # <<>>) =>
        /\ CountsSumToTotal(last.input, last.result)
        /\ RatioSum(last.result) \in {FloatBelowOne, FloatOne, FloatAboveOne}

\* six articles, one positive, four negative and one neutral: the ratios
\* 1/6, 4/6 and 1/6 add up to 0.9999999999999999
C13_Witness ==
    /\ last.op = "sentiment"
    /\ Len(last.input) = 6
    /\ last.result.positive_count = 1
    /\ last.result.negative_count = 4
    /\ last.result.neutral_count = 1
    /\ RatioSum(last.result) = FloatBelowOne

----------------------------------------------------------------------------
\* Properties of query (SpecQuery)

\* C17: a successful query on a loaded index returns one source record per
\* retrieved chunk, at most 3 of them (all chunks when the index holds fewer
\* than 3), each with the title, source, url and published_at of its chunk
\* and a preview that is the whole chunk text when it has at most 200
\* characters and otherwise its first 200 characters followed by "...".
C17_SourcesOfRetrievedChunks ==
    (last.op = "query" /\ last.kind = "answer") =>
        LET chunks  == engine.qa_chain.chunks
            sources == last.sources
        IN  /\ engine.qa_chain.set
            /\ Len(sources) <= 3
            /\ Len(sources) = IF Len(chunks) < 3 THEN Len(chunks) ELSE 3
            /\ \E pick \in [1..Len(sources) -> 1..Len(chunks)] :
                  /\ \A i, j \in 1..Len(sources) :
                        pick[i] = pick[j] => i = j
                  /\ \A i \in 1..Len(sources) :
                        LET chunk == chunks[pick[i]]
                        IN  /\ sources[i].title = chunk.metadata.title
                            /\ sources[i].source = chunk.metadata.source
                            /\ sources[i].url = chunk.metadata.url
                            /\ sources[i].published_at
                                  = chunk.metadata.published_at
                            /\ sources[i].part = chunk.part
                            /\ sources[i].content_preview
                                  = IF chunk.len <= 200
                                    THEN [chars |-> chunk.len,
                                          ellipsis |-> FALSE]
                                    ELSE [chars |-> 200, ellipsis |-> TRUE]

\* an answer from an index of more than three chunks, with a preview of a
\* whole chunk of 200 characters and a cut one
C17_Witness ==
    /\ last.op = "query"
    /\ last.kind = "answer"
    /\ Len(engine.qa_chain.chunks) > 3
    /\ Len(last.sources) = 3
    /\ \E i, j \in 1..3 :
          /\ last.sources[i].content_preview
                = [chars |-> 200, ellipsis |-> FALSE]
          /\ last.sources[j].content_preview
                = [chars |-> 200, ellipsis |-> TRUE]

----------------------------------------------------------------------------
\* Properties of the validators (SpecSanitize, SpecValidateQuery)

\* The query without its markup: what stands from a "<" to the next ">" is
\* left out, brackets included
RECURSIVE WithoutMarkup(_, _, _)
WithoutMarkup(text, i, acc) ==
    IF i > Len(text) THEN acc
    ELSE IF text[i] = "<" /\ \E j \in (i+1)..Len(text) : text[j] = ">"
    THEN WithoutMarkup(text,
             1 + CHOOSE j \in (i+1)..Len(text) :
                     text[j] = ">"
                       /\ \A k \in (i+1)..(j-1) : text[k] # ">",
             acc)
    ELSE WithoutMarkup(text, i + 1, Append(acc, text[i]))

\* C19: sanitize_query strips markup: the result holds none of the
\* characters < > " ' and nothing of what was enclosed between a "<" and a
\* ">" (sanitize_query("test<script>") is "test").
C19_SanitizeStripsMarkup ==
    last.op = "sanitized" =>
        /\ \A i \in 1..Len(last.result) : last.result[i] \notin {"<", ">", "\"", "'"}
        /\ last.result
              = strip(SelectSeq(WithoutMarkup(last.input, 1, <<>>), NotDangerous))

\* C20: validate_query accepts a query exactly when its length without the
\* surrounding whitespace is between 2 and 200: the empty and the blank
\* query, a query of one character and one of more than 200 are rejected.
C20_ValidQueryLength ==
    last.op = "validated_query" =>
        (last.result <=> (last.input.core >= 2 /\ last.input.core <= 200))

\* a query of exactly 200 characters between blanks is accepted
C20_Witness ==
    /\ last.op = "validated_query"
    /\ last.input = Text(1, 200, 1)
    /\ last.result

----------------------------------------------------------------------------
\* Properties of the fetcher (SpecFetch)

\* C14: a single call of _make_request sends at most two HTTP requests (the
\* first one and one retry after a 60-second sleep), whatever the server
\* answers.
C14_AtMostTwoRequests ==
    /\ fetcher.requests <= 2
    /\ fetcher.sleeps <= 1

\* The answers counted in a log of answers
CodesSeen(got, code) ==
    Cardinality({i \in 1..Len(got) :
                    got[i].kind = "response" /\ got[i].code = code})

\* C15: _make_request handles the status codes distinctly.  A 401 raises the
\* invalid-key error and no further request follows it; every 429, and
\* nothing else, is followed by a sleep and another request; any other code
\* than 200 raises the request-failed error with that code; and a result is
\* returned only for a 200 response, and it is the parsed body.
C15_StatusCodesHandledDistinctly ==
    fetcher.requests > 0 =>
        LET got    == fetcher.got
            answer == got[Len(got)]
        IN  /\ Len(got) = fetcher.requests
            /\ \A i \in 1..(Len(got) - 1) :
                  got[i].kind = "response" /\ got[i].code = 429
            /\ fetcher.sleeps + (IF fetcher.pc = "sleep" THEN 1 ELSE 0)
                  = CodesSeen(got, 429)
            /\ (fetcher.pc = "sleep") =>
                  (answer.kind = "response" /\ answer.code = 429)
            /\ (answer.kind = "response" /\ answer.code = 401) =>
                  /\ fetcher.pc = "done"
                  /\ fetcher.request.do = "raise"
                  /\ fetcher.request.error = "Invalid NewsAPI key"
            /\ (answer.kind = "response" /\ answer.code \notin {200, 401, 429}) =>
                  /\ fetcher.pc = "done"
                  /\ fetcher.request.do = "raise"
                  /\ fetcher.request.error = "API request failed"
                  /\ fetcher.request.code = answer.code
            /\ fetcher.request.do = "return" =>
                  /\ fetcher.pc = "done"
                  /\ answer.kind = "response" /\ answer.code = 200
                  /\ fetcher.request.data.json

\* a 429 answered by a sleep and a second request, whose 404 is raised
C15_Witness ==
    /\ fetcher.pc = "done"
    /\ fetcher.sleeps = 1
    /\ fetcher.got = <<[kind |-> "response", code |-> 429],
                       [kind |-> "response", code |-> 404]>>
    /\ fetcher.request = Raise("API request failed", 404)
    /\ fetcher.result.outcome = "raised"

----------------------------------------------------------------------------
\* Properties of the summarizer (SpecSummarize)

\* C18: between any two consecutive generation requests that
\* summarize_articles sends to the LLM server there is at least one delay
\* (time.sleep(0.5)).
C18_DelayBetweenGenerations ==
    last.op = "summarized" =>
        LET events == last.result.events
        IN  \A i, j \in 1..Len(events) :
                (i < j /\ events[i].do = "generate"
                       /\ events[j].do = "generate")
                   => \E k \in (i+1)..(j-1) : events[k].do = "sleep"

\* two requests, the first of them answered by an error
C18_Witness ==
    /\ last.op = "summarized"
    /\ Len(last.input) = 2
    /\ last.input[1].llm = "connection_error"
    /\ last.result.events =
          <<[do |-> "generate", article |-> 1], [do |-> "sleep", article |-> 1],
            [do |-> "generate", article |-> 2], [do |-> "sleep", article |-> 2]>>

----------------------------------------------------------------------------
----------------------------------------------------------------------------
\* C30: every article that fetch_news returns passes _validate_article, so
\* ingestion drops none of the fetched articles.
C30_FetchedArticlesAreIngestible ==
    (fetcher.pc = "done" /\ fetcher.result.outcome = "returned") =>
        \A i \in 1..Len(fetcher.result.articles) :
            validate_article(fetcher.result.articles[i])

----------------------------------------------------------------------------
\* C27: summarize_articles returns the articles of its input, all of them and
\* in the same order, each with a summary, whatever the LLM server did and
\* whatever the articles lack.
Summaries ==
    {"generated summary", "Failed to generate summary.",
     "Error generating summary",
     "Text too short or too long for summarization."}

C27_NoArticleDroppedOrReordered ==
    last.op = "summarized" =>
        LET returned == last.result.summarized_articles
        IN  /\ Len(returned) = Len(last.input)
            /\ \A i \in 1..Len(returned) :
                   /\ returned[i].article = last.input[i].article
                   /\ returned[i].summary \in Summaries

\* an article without content, then one the server fails on: both returned,
\* in that order
C27_Witness ==
    /\ last.op = "summarized"
    /\ Len(last.input) = MaxSummarized
    /\ ~last.input[1].article.content.present
    /\ last.input[2].llm = "connection_error"
    /\ last.input[2].article.content = Text(0, 200, 0)
    /\ last.result.summarized_articles[1].summary
          = "Failed to generate summary."
    /\ last.result.summarized_articles[2].summary = "Error generating summary"

----------------------------------------------------------------------------
\* C25: in every state of the query engine, get_knowledge_base_info reports
\* loaded = True exactly when query does not answer with the not-loaded
\* error (the store and the QA chain are set together).
C25_StoreAndChainSetTogether ==
    get_knowledge_base_info(engine).loaded
        <=> (query(engine, TRUE, {}).kind # "not_loaded")

----------------------------------------------------------------------------
\* Properties of the menu application (SpecApp)

\* the handler the menu announces for each number, and a field that only
\* the record of that handler has
HandlerOfChoice ==
    [c \in {"1", "2", "3", "4", "5", "6"} |->
        CASE c = "1" -> [name |-> "handle_fetch_news", field |-> "events"]
          [] c = "2" -> [name |-> "handle_query_knowledge_base",
                         field |-> "asked"]
          [] c = "3" -> [name |-> "handle_statistics", field |-> "kb_info"]
          [] c = "4" -> [name |-> "handle_view_summaries", field |-> "shown"]
          [] c = "5" -> [name |-> "handle_clear_vector_store",
                         field |-> "answer"]
          [] c = "6" -> [name |-> "handle_settings",
                         field |-> "settings_shown"]]

\* a choice was typed at the prompt in this step
ChoiceStep == app.pc = "prompt" /\ app'.pc # "prompt"

\* C21: a choice 1..6 runs exactly its handler and the loop goes on, also
\* when the handler raised; choice 7 ends the loop; any other input runs no
\* handler, changes nothing and the loop goes on; and a turn of the loop
\* that starts while self.running holds shows the menu and prompts again.
C21_MenuDispatch ==
    [][ /\ ChoiceStep =>
            LET c == last'.choice
            IN  /\ c \in DOMAIN HandlerOfChoice =>
                      /\ last'.op = "handler"
                      /\ last'.handler = HandlerOfChoice[c].name
                      /\ HandlerOfChoice[c].field \in DOMAIN last'.did
                      /\ app'.pc = "loop"
                      /\ c \in {"2", "3", "4", "6"} => UNCHANGED kbVars
                      /\ c = "1" => UNCHANGED <<lcMetaFile, engine>>
                      /\ c = "5" => UNCHANGED summFile
                /\ c = "7" => last'.op = "exit" /\ app'.pc = "exited"
                /\ c \notin DOMAIN HandlerOfChoice \cup {"7"} =>
                      /\ last'.op = "invalid"
                      /\ app'.pc = "loop"
                      /\ UNCHANGED kbVars
        /\ (app.pc = "loop" /\ app.running /\ app'.pc # "loop") =>
              app'.pc = "prompt"
      ]_vars

\* handle_settings raised, and the loop is about to show the menu again
C21_Witness ==
    /\ last.op = "handler"
    /\ last.handler = "handle_settings"
    /\ last.raised
    /\ app.pc = "loop"
    /\ app.running

\* the last turn ran this handler
LastHandler(name) == last.op = "handler" /\ last.handler = name

\* C22: when clear_vector_store has returned True, neither
\* data/ingestion_metadata.json nor data/summaries.json is left, and the
\* view-summaries option finds no saved summaries.
C22_ClearRemovesSideFiles ==
    (LastHandler("handle_clear_vector_store") /\ last.did.cleared) =>
        /\ metaFile.state = "absent"
        /\ summFile.state = "absent"
        /\ handle_view_summaries(summFile).shown = "none"

\* C23: when the clear-store option has succeeded on an engine that had an
\* index loaded, the engine is not loaded: a query gets the not-loaded error
\* and get_knowledge_base_info reports loaded = False.
C23_ClearedEngineIsNotLoaded ==
    (/\ LastHandler("handle_clear_vector_store")
     /\ last.did.cleared
     /\ last.did.wasLoaded) =>
        /\ \A invokeOk \in BOOLEAN :
              query(engine, invokeOk, {}).kind = "not_loaded"
        /\ ~get_knowledge_base_info(engine).loaded

\* C24: in one session, a question asked after the fetch option stored
\* articles (and with no clearing since) is answered from the index as it is
\* on disk: not with the not-loaded error, not from an older index.
C24_QueryAfterIngestionSeesIt ==
    (/\ LastHandler("handle_query_knowledge_base")
     /\ last.did.asked
     /\ last.did.ingested) =>
        /\ last.did.kind # "not_loaded"
        /\ last.did.searched = index.chunks

\* C26: once a signal has been delivered (self.running is False), no
\* handler is started any more.
C26_NoHandlerAfterSignal ==
    [][ ~app.running => ~(ChoiceStep /\ last'.op = "handler") ]_vars

\* C28: in the fetch option the query is sanitized first and the sanitized
\* query is the one validated; fetch_news is called only with a query of 2
\* to 200 characters; summarize_articles and ingest_documents are called
\* only after a fetch that returned at least one article, and
\* ingest_documents only after summarize_articles was given all of them.
C28_FetchOptionOrder ==
    LastHandler("handle_fetch_news") =>
        LET ev == last.did.events
        IN  /\ Len(ev) >= 2
            /\ ev[1].do = "sanitize_query"
            /\ ev[2].do = "validate_query"
            /\ \A k \in 1..Len(ev[2].query) : ev[2].query[k] \notin DANGEROUS
            /\ \A i \in 3..Len(ev) :
                  /\ ev[i].do = "fetch_news" =>
                        /\ i = 3
                        /\ ev[i].query = ev[2].query
                        /\ Len(ev[2].query) \in 2..200
                  /\ ev[i].do = "summarize_articles" =>
                        /\ i = 4
                        /\ ev[3].do = "fetch_news"
                        /\ ev[3].count >= 1
                        /\ ev[i].count = ev[3].count
                  /\ ev[i].do = "ingest_documents" =>
                        /\ i = 5
                        /\ ev[4].do = "summarize_articles"
                        /\ ev[i].count = ev[3].count
                  /\ ev[i].do \in {"fetch_news", "summarize_articles",
                                    "ingest_documents"}

\* a query of two characters one of which is removed: no request is sent
C28_Witness ==
    /\ LastHandler("handle_fetch_news")
    /\ last.did.typed = <<"t", "<">>
    /\ last.did.outcome = "invalid_query"
    /\ Len(last.did.events) = 2

\* the answer is y or yes, in any case, with any blanks around it
SaysYes(answer) ==
    LET letters == SelectSeq(answer, LAMBDA c : c # Blank)
    IN  /\ \E first, final \in 1..Len(answer) :
              /\ SubSeq(answer, first, final) = letters
              /\ \A i \in (1..(first - 1)) \cup ((final + 1)..Len(answer)) :
                    answer[i] = Blank
        /\ \/ Len(letters) = 1 /\ letters[1] \in {"y", "Y"}
           \/ /\ Len(letters) = 3
              /\ letters[1] \in {"y", "Y"}
              /\ letters[2] \in {"e", "E"}
              /\ letters[3] \in {"s", "S"}

\* C29: a turn of the clear-store option whose confirmation is anything but
\* y or yes changes neither the index, nor the side files, nor the engine.
C29_ClearNeedsConfirmation ==
    [][ (/\ ChoiceStep
         /\ last'.op = "handler"
         /\ last'.handler = "handle_clear_vector_store"
         /\ ~SaysYes(last'.did.answer))
           => UNCHANGED <<index, metaFile, summFile, lcMetaFile, engine>>
      ]_vars

\* the empty answer, given while an index is on disk and loaded
C29_Witness ==
    /\ LastHandler("handle_clear_vector_store")
    /\ last.did.answer = <<>>
    /\ ~last.did.confirmed
    /\ index.state = "ok"
    /\ engine.qa_chain.set

====
